---------------------------- MODULE Spec2Model ----------------------------
(***************************************************************************)
(* A model of pulumi-backend, the command-line orchestrator that migrates  *)
(* Pulumi stacks between Pulumi Cloud and an S3 backend.                   *)
(*                                                                         *)
(* The three workflows (cloudToS3Command, s3ToCloudCommand, initCommand)   *)
(* are sequential async functions: every external command is awaited, so  *)
(* a run is a path through the function.  One action models one call of a *)
(* helper (exportStackState, loginToS3Backend, ...) together with the      *)
(* workflow's reaction to its result.  The outcome of every external       *)
(* command (exit status, and output where the code reads it) and every     *)
(* answer typed at a prompt is chosen nondeterministically.                *)
(*                                                                         *)
(* Strings.  A string is a sequence of pieces (TLA+ strings); the string   *)
(* it stands for is the concatenation of the pieces.  The separators the   *)
(* code tests for are pieces of their own: "/" in a stack reference,       *)
(* "alias/" at the head of a KMS alias, "s3://" and "?region=" in a        *)
(* backend URL.  A command is a sequence of such strings (its argv).       *)
(***************************************************************************)
EXTENDS Integers, Sequences, FiniteSets, TLC

(***************************************************************************)
(* Bounds of the model.                                                    *)
(***************************************************************************)
\* At most this many external commands fail in one run (existence probes,
\* whose failure means "absent", are not counted).
MaxFailures == 1

\* Longest preview summary (in tokens) given to verifyMigration on its own.
MaxTextLen == 5

\* Longest stack name (in pieces) given to the organization-aware helpers.
MaxNameLen == 2

\* Longest backend URL (in pieces) given to parseS3BackendUrl on its own.
MaxUrlLen == 4

\* Longest Statement list of the bucket policy that checkAndFixS3Permissions
\* is first run against.
MaxStatements == 2

\* How many times in a row checkAndFixS3Permissions is run on one bucket.
MaxReconciles == 2

\* Longest stdout and stderr (in tokens) of a process run by the command
\* runner on its own.
MaxOutputLen == 2

\* Largest exit code of such a process.
MaxExitCode == 2

\* Longest answer (in characters) typed at Logger.confirm called on its own.
MaxAnswerLen == 3

(***************************************************************************)
(* Strings and commands.                                                   *)
(***************************************************************************)
S(piece) == <<piece>>

Empty == <<>>

\* argv of literal words
Lit(words) == [i \in 1..Len(words) |-> S(words[i])]

\* JavaScript truthiness of a string: non-empty
Truthy(str) == str # Empty

\* str.startsWith("alias/")
StartsWithAlias(str) == Len(str) > 0 /\ str[1] = "alias/"

\* str.includes("/")
IncludesSlash(str) == \E i \in 1..Len(str) : str[i] = "/"

RECURSIVE SplitFrom(_, _, _)
\* the segments of str[i..] between "/" pieces, cur being the segment begun
SplitFrom(str, i, cur) ==
  IF i > Len(str) THEN <<cur>>
  ELSE IF str[i] = "/" THEN <<cur>> \o SplitFrom(str, i + 1, Empty)
  ELSE SplitFrom(str, i + 1, Append(cur, str[i]))

\* str.split("/")
Split(str) == SplitFrom(str, 1, Empty)

\* arr[i] of a JavaScript array (0-based); undefined reads as the empty string
\* in the truthiness tests and defaults the code applies to it
At0(arr, i) == IF i + 1 <= Len(arr) THEN arr[i + 1] ELSE Empty

\* str.replaceAll("/", "-")
ReplaceSlash(str) == [i \in 1..Len(str) |-> IF str[i] = "/" THEN "-" ELSE str[i]]

(***************************************************************************)
(* Names used by the runs.                                                 *)
(***************************************************************************)
Region == S("eu-west-3")

DefaultKmsAlias == <<"alias/", "pulumi-secrets">>

MigrateTempDir == ".pulumi-migrate-temp"

CloudMigrateTempDir == ".pulumi-cloud-migrate-temp"

\* a variant that leaves the region out
S3UrlBare(bucket, region) == <<"s3://">> \o bucket

\* `s3://${bucket}?region=${region}`
S3Url(bucket, region) == <<"s3://">> \o bucket \o <<"?region=">> \o region

\* `awskms://${kmsKeyId}?region=${region}`
KmsUrl(kmsKeyId, region) == <<"awskms://">> \o kmsKeyId \o <<"?region=">> \o region

(***************************************************************************)
(* The ambient backend session of the pulumi CLI.                          *)
(***************************************************************************)
NoSession == [kind |-> "none", url |-> Empty]

CloudSession == [kind |-> "cloud", url |-> Empty]

S3Session(url) == [kind |-> "s3", url |-> url]

\* `pulumi logout`: a successful logout ends the session, a failed one leaves it
AfterLogout(sess, ok) == IF ok THEN NoSession ELSE sess

\* a variant in which a login leaves the session as it was
AfterLoginStays(sess, url, ok) == sess

\* `pulumi login [url]`: a successful login opens the session named by the
\* command (Pulumi Cloud when no URL is given), a failed one leaves it
AfterLogin(sess, url, ok) ==
  IF ~ok THEN sess
  ELSE IF url = Empty THEN CloudSession ELSE S3Session(url)


(***************************************************************************)
(* The state of a run.                                                     *)
(***************************************************************************)
VARIABLES
  wf,        \* the workflow that runs: "cloudToS3", "s3ToCloud" or "init"
  args,      \* the parsed command-line arguments (never change)
  pc,        \* the next step of the workflow function
  loc,       \* the workflow function's local variables and step results
  cmds,      \* the external commands issued so far, in order, with outcomes
  asked,     \* the calls of Logger.confirm so far, in order
  session,   \* the ambient backend session of the pulumi CLI
  dirs,      \* the staging directories that exist in the working directory
  penv,      \* PULUMI_CONFIG_PASSPHRASE of the process environment
  exitCode,  \* -1 while running, then the exit status of the process
  failures   \* how many external commands have failed (not the probes)

vars == <<wf, args, pc, loc, cmds, asked, session, dirs, penv, exitCode, failures>>

\* the exit status while the process has not exited
Running == 0 - 1

(***************************************************************************)
(* createExecuteCommand: the runner appends the command to the log with    *)
(* its result.  at is the session the command ran in, env the overrides    *)
(* passed in options.env, pass the process's PULUMI_CONFIG_PASSPHRASE, out *)
(* the output the caller reads (empty where the caller reads none).        *)
(***************************************************************************)
Exec(cmd, ok, sess, env, pass) ==
  [cmd |-> cmd, ok |-> ok, at |-> sess, env |-> env, pass |-> pass, probe |-> FALSE,
   out |-> Empty]

\* the command printed output, which the caller reads
Printed(entry, output) == [entry EXCEPT !.out = output]

\* an existence probe (head-bucket, describe-key): failure means "absent"
Probe(cmd, ok, sess, pass) ==
  [cmd |-> cmd, ok |-> ok, at |-> sess, env |-> {}, pass |-> pass, probe |-> TRUE,
   out |-> Empty]

RECURSIVE Failed(_)
Failed(entries) ==
  IF entries = <<>> THEN 0
  ELSE (IF ~Head(entries).ok /\ ~Head(entries).probe THEN 1 ELSE 0) + Failed(Tail(entries))

\* the commands of one helper call are issued, within the failure bound
Issue(entries) ==
  /\ failures + Failed(entries) <= MaxFailures
  /\ failures' = failures + Failed(entries)
  /\ cmds' = cmds \o entries

\* a variant that always ends with status 0
ExitSuccess(code) == pc' = "exited" /\ exitCode' = 0

\* Deno.exit(code)
Exit(code) == pc' = "exited" /\ exitCode' = code

(***************************************************************************)
(* Logger.confirm (src/src/ui/logger.ts).  A response is what prompt()     *)
(* returns: null, or the typed line as a sequence of characters.           *)
(***************************************************************************)
NullResponse == [null |-> TRUE, text |-> Empty]

Typed(chars) == [null |-> FALSE, text |-> chars]

Responses ==
  { NullResponse, Typed(Empty), Typed(<<"y">>), Typed(<<"Y", "E", "S">>),
    Typed(<<"n", "o">>), Typed(<<"y", "e", "s", "s">>) }

LowerChar(c) ==
  CASE c = "Y" -> "y" [] c = "E" -> "e" [] c = "S" -> "s"
    [] c = "N" -> "n" [] c = "O" -> "o" [] OTHER -> c

\* /^y(es)?$/i.test(text)
MatchesYes(text) ==
  LET low == [i \in 1..Len(text) |-> LowerChar(text[i])]
  IN  low = <<"y">> \/ low = <<"y", "e", "s">>

\* whether confirm reaches prompt()
ConfirmPrompts(yes, interactive) == ~yes /\ interactive

\* a variant in which an empty answer means yes
ConfirmEmptyIsYes(yes, interactive, defaultYes, resp) ==
  IF yes THEN TRUE
  ELSE IF ~interactive THEN defaultYes
  ELSE IF resp.null \/ resp.text = Empty THEN TRUE
  ELSE MatchesYes(resp.text)

\* a variant that does not look at --yes
ConfirmIgnoresYes(yes, interactive, defaultYes, resp) ==
  IF ~interactive THEN defaultYes
  ELSE IF resp.null \/ resp.text = Empty THEN defaultYes
  ELSE MatchesYes(resp.text)

Confirm(yes, interactive, defaultYes, resp) ==
  IF yes THEN TRUE
  ELSE IF ~interactive THEN defaultYes
  ELSE IF resp.null \/ resp.text = Empty THEN defaultYes
  ELSE MatchesYes(resp.text)

\* the responses a confirm call can read: none unless it prompts
ConfirmInputs == IF ConfirmPrompts(args.yes, args.interactive) THEN Responses ELSE {NullResponse}

Asked(question, resp) ==
  [q |-> question, prompted |-> ConfirmPrompts(args.yes, args.interactive), resp |-> resp,
   ret |-> Confirm(args.yes, args.interactive, FALSE, resp)]

(***************************************************************************)
(* runPrerequisiteChecks (src/src/checks/prerequisites.ts)                 *)
(***************************************************************************)
PulumiVersionCmd == Lit(<<"pulumi", "version">>)

AwsIdentityCheckCmd == Lit(<<"aws", "sts", "get-caller-identity">>)

\* the step after the prerequisite checks
AfterPrereq == CASE wf = "cloudToS3" -> "bucket" [] wf = "s3ToCloud" -> "backend" [] OTHER -> "project"

RunPrerequisiteChecks ==
  /\ pc = "prereq"
  /\ \E pulumiInstalled \in BOOLEAN :
       IF ~pulumiInstalled
       THEN /\ Issue(<<Exec(PulumiVersionCmd, FALSE, session, {}, penv)>>)
            /\ Exit(1)
            /\ UNCHANGED asked
       ELSE \E awsConfigured \in BOOLEAN :
              /\ Issue(<<Exec(PulumiVersionCmd, TRUE, session, {}, penv),
                         Exec(AwsIdentityCheckCmd, awsConfigured, session, {}, penv)>>)
              /\ IF awsConfigured
                 THEN pc' = AfterPrereq /\ UNCHANGED <<asked, exitCode>>
                 ELSE \E resp \in ConfirmInputs :
                        /\ asked' = Append(asked, Asked("continue-anyway", resp))
                        /\ IF Confirm(args.yes, args.interactive, FALSE, resp)
                           THEN pc' = AfterPrereq /\ UNCHANGED exitCode
                           ELSE Exit(1)
  /\ UNCHANGED <<wf, args, loc, session, dirs, penv>>

(***************************************************************************)
(* Logger.prompt (src/src/ui/logger.ts)                                    *)
(***************************************************************************)
Prompt(interactive, defaultValue, resp) ==
  IF ~interactive THEN defaultValue
  ELSE IF resp.null \/ resp.text = Empty THEN defaultValue
  ELSE resp.text

\* the name the bucket is derived from: readProjectConfig's project name,
\* lower-cased with every character outside [a-z0-9-] replaced by "-"
SuggestedBucketName == S("proj")

BucketResponses == {NullResponse, Typed(S("typed-bucket"))}

(***************************************************************************)
(* checkS3BucketExists, createS3Bucket (src/src/aws/s3.ts)                 *)
(***************************************************************************)
HeadBucketCmd(bucket, region) ==
  Lit(<<"aws", "s3api", "head-bucket", "--bucket">>) \o <<bucket>> \o <<S("--region"), region>>

\* A variant that names the location in every region.
CreateBucketCmdAlwaysConstrained(bucket, region) ==
  Lit(<<"aws", "s3api", "create-bucket", "--bucket">>) \o <<bucket>> \o <<S("--region"), region>>
    \o <<S("--create-bucket-configuration"), <<"LocationConstraint=">> \o region>>

CreateBucketCmd(bucket, region) ==
  Lit(<<"aws", "s3api", "create-bucket", "--bucket">>) \o <<bucket>> \o <<S("--region"), region>>
    \o (IF region # S("us-east-1")
        THEN <<S("--create-bucket-configuration"), <<"LocationConstraint=">> \o region>>
        ELSE <<>>)

PutVersioningCmd(bucket, region) ==
  Lit(<<"aws", "s3api", "put-bucket-versioning", "--bucket">>) \o <<bucket>>
    \o Lit(<<"--versioning-configuration", "Status=Enabled", "--region">>) \o <<region>>

PutEncryptionCmd(bucket, region) ==
  Lit(<<"aws", "s3api", "put-bucket-encryption", "--bucket">>) \o <<bucket>>
    \o Lit(<<"--server-side-encryption-configuration", "AES256,BucketKeyEnabled", "--region">>)
    \o <<region>>

PutLifecycleCmd(bucket, region) ==
  Lit(<<"aws", "s3api", "put-bucket-lifecycle-configuration", "--bucket">>) \o <<bucket>>
    \o Lit(<<"--lifecycle-configuration", "ExpireOldVersions,NoncurrentDays=90", "--region">>)
    \o <<region>>

\* o[1..4]: the outcomes of create-bucket, versioning, encryption, lifecycle.
\* The result: the commands issued and the value returned.
CreateS3Bucket(sess, pass, bucket, region, o) ==
  LET c1 == Exec(CreateBucketCmd(bucket, region), o[1], sess, {}, pass)
      c2 == Exec(PutVersioningCmd(bucket, region), o[2], sess, {}, pass)
      c3 == Exec(PutEncryptionCmd(bucket, region), o[3], sess, {}, pass)
      c4 == Exec(PutLifecycleCmd(bucket, region), o[4], sess, {}, pass)
  IN  IF ~o[1] THEN [entries |-> <<c1>>, ret |-> FALSE]
      ELSE IF ~o[2] THEN [entries |-> <<c1, c2>>, ret |-> TRUE]
      ELSE IF ~o[3] THEN [entries |-> <<c1, c2, c3>>, ret |-> TRUE]
      ELSE [entries |-> <<c1, c2, c3, c4>>, ret |-> TRUE]

\* the outcome vectors of a helper issuing n commands in a row that stops at
\* its first failure or runs through: what follows a failure is not issued
StopAtFirstFailure(n) ==
  { [i \in 1..n |-> i < k] : k \in 1..(n + 1) }

(***************************************************************************)
(* checkKmsAliasExists, createKmsKeyAndAlias (kms.ts, src/unnamed/part_001) *)
(***************************************************************************)
\* alias.startsWith("alias/") ? alias : `alias/${alias}`
WithAliasPrefix(alias) == IF StartsWithAlias(alias) THEN alias ELSE <<"alias/">> \o alias

\* alias.startsWith("alias/") ? alias.substring(6) : alias
WithoutAliasPrefix(alias) == IF StartsWithAlias(alias) THEN Tail(alias) ELSE alias

DescribeKeyCmd(alias, region) ==
  Lit(<<"aws", "kms", "describe-key", "--key-id">>) \o <<WithAliasPrefix(alias)>>
    \o <<S("--region"), region>>

CreateKeyCmd(region) ==
  Lit(<<"aws", "kms", "create-key", "--description", "'Pulumi State Encryption Key'",
        "--tags", "TagKey=Purpose,TagValue=PulumiStateEncryption", "--region">>) \o <<region>>

\* the KeyId of the key that create-key made
NewKeyId == S("1234abcd-key-id")

CreateAliasCmd(alias, keyId, region) ==
  Lit(<<"aws", "kms", "create-alias", "--alias-name">>)
    \o << <<"alias/">> \o WithoutAliasPrefix(alias) >>
    \o <<S("--target-key-id"), keyId, S("--region"), region>>

Null == [null |-> TRUE, val |-> Empty]

Val(str) == [null |-> FALSE, val |-> str]

\* what create-key prints: the key's description, or text that JSON.parse
\* rejects
KeyDescription == <<"{\"KeyMetadata\":{\"KeyId\":\"">> \o NewKeyId \o <<"\"}}">>

GarbledOutput == S("Unable to locate credentials")

\* a variant that returns the alias whether or not it was created
CreateKmsKeyAndAliasReturnsAlias(sess, pass, alias, region, keyOk, jsonOk, aliasOk) ==
  LET c1 == Printed(Exec(CreateKeyCmd(region), keyOk, sess, {}, pass),
                    IF keyOk /\ jsonOk THEN KeyDescription ELSE GarbledOutput)
      c2 == Exec(CreateAliasCmd(alias, NewKeyId, region), aliasOk, sess, {}, pass)
  IN  IF ~keyOk THEN [entries |-> <<c1>>, ret |-> Null]
      ELSE IF ~jsonOk THEN [entries |-> <<c1>>, ret |-> Null]
      ELSE [entries |-> <<c1, c2>>, ret |-> Val(alias)]

\* keyOk: create-key exits 0; jsonOk: its output parses and holds
\* KeyMetadata.KeyId; aliasOk: create-alias exits 0
CreateKmsKeyAndAlias(sess, pass, alias, region, keyOk, jsonOk, aliasOk) ==
  LET c1 == Printed(Exec(CreateKeyCmd(region), keyOk, sess, {}, pass),
                    IF keyOk /\ jsonOk THEN KeyDescription ELSE GarbledOutput)
      c2 == Exec(CreateAliasCmd(alias, NewKeyId, region), aliasOk, sess, {}, pass)
  IN  IF ~keyOk THEN [entries |-> <<c1>>, ret |-> Null]
      ELSE IF ~jsonOk THEN [entries |-> <<c1>>, ret |-> Null]
      ELSE IF ~aliasOk THEN [entries |-> <<c1, c2>>, ret |-> Val(NewKeyId)]
      ELSE [entries |-> <<c1, c2>>, ret |-> Val(alias)]

(***************************************************************************)
(* getCurrentAwsIdentity (src/src/aws/identity.ts) and                     *)
(* checkAndFixS3Permissions (src/src/aws/s3.ts).                           *)
(*                                                                         *)
(* A policy statement keeps what the code reads: its Sid, its Effect, and  *)
(* whom its Principal names: "*" (Principal or Principal.AWS is "*"),       *)
(* "me" (Principal.AWS includes the caller's identity) or "other".         *)
(* The output of get-bucket-policy is: whether it parses as JSON holding a *)
(* parsable Policy, whether that policy has a Statement list, the list.    *)
(***************************************************************************)
PulumiSid == "AllowPulumiStateAccess"

FreshStatement == [sid |-> PulumiSid, effect |-> "Allow", principal |-> "me"]

PolicyDoc(parses, hasStatement, statements) ==
  [parses |-> parses, hasStatement |-> hasStatement, statements |-> statements]

NoPolicyText == PolicyDoc(FALSE, FALSE, <<>>)

GetIdentityCmd == Lit(<<"aws", "sts", "get-caller-identity", "--query", "Arn", "--output", "text">>)

GetPolicyCmd(bucket, region) ==
  Lit(<<"aws", "s3api", "get-bucket-policy", "--bucket">>) \o <<bucket>>
    \o <<S("--region"), region>> \o Lit(<<"--output", "json">>)

PutPolicyCmd(bucket, region) ==
  Lit(<<"aws", "s3api", "put-bucket-policy", "--bucket">>) \o <<bucket>>
    \o Lit(<<"--policy", "<policyString>", "--region">>) \o <<region>>

\* a variant that keeps every statement
WithoutPulumiSidKeepsAll(statements) == statements

\* statements.filter(s => s.Sid !== "AllowPulumiStateAccess")
RECURSIVE WithoutPulumiSid(_)
WithoutPulumiSid(statements) ==
  IF statements = <<>> THEN <<>>
  ELSE (IF Head(statements).sid # PulumiSid THEN <<Head(statements)>> ELSE <<>>)
         \o WithoutPulumiSid(Tail(statements))

\* the Statement list of the policy that is written
MergedStatements(getOk, doc) ==
  IF getOk /\ doc.parses /\ doc.hasStatement
  THEN Append(WithoutPulumiSid(doc.statements), FreshStatement)
  ELSE <<FreshStatement>>

HasDenyPolicy(getOk, doc) ==
  /\ getOk /\ doc.parses /\ doc.hasStatement
  /\ \E i \in 1..Len(doc.statements) :
       doc.statements[i].effect = "Deny" /\ doc.statements[i].principal \in {"*", "me"}

\* a variant that reports success once the identity is known
CheckAndFixS3PermissionsOptimistic(sess, pass, bucket, region, idOk, idText, getOk, doc, putOk) ==
  LET c1 == Exec(GetIdentityCmd, idOk, sess, {}, pass)
      c2 == Exec(GetPolicyCmd(bucket, region), getOk, sess, {}, pass)
      c3 == Exec(PutPolicyCmd(bucket, region), putOk, sess, {}, pass)
  IN  IF ~(idOk /\ idText)
      THEN [entries |-> <<c1>>, ret |-> FALSE, policy |-> <<>>, waited |-> FALSE]
      ELSE [entries |-> <<c1, c2, c3>>, ret |-> TRUE,
            policy |-> MergedStatements(getOk, doc),
            waited |-> putOk /\ HasDenyPolicy(getOk, doc)]

\* idOk: get-caller-identity exits 0; idText: it printed an ARN;
\* getOk, doc: get-bucket-policy's exit and output; putOk: put-bucket-policy.
\* The written policy is kept beside the put command (field policy).
CheckAndFixS3Permissions(sess, pass, bucket, region, idOk, idText, getOk, doc, putOk) ==
  LET c1 == Exec(GetIdentityCmd, idOk, sess, {}, pass)
      c2 == Exec(GetPolicyCmd(bucket, region), getOk, sess, {}, pass)
      c3 == Exec(PutPolicyCmd(bucket, region), putOk, sess, {}, pass)
  IN  IF ~(idOk /\ idText)
      THEN [entries |-> <<c1>>, ret |-> FALSE, policy |-> <<>>, waited |-> FALSE]
      ELSE [entries |-> <<c1, c2, c3>>, ret |-> putOk,
            policy |-> MergedStatements(getOk, doc),
            waited |-> putOk /\ HasDenyPolicy(getOk, doc)]

(***************************************************************************)
(* changeSecretProvider, changeSecretsProviderToDefault                    *)
(* (src/src/pulumi/secrets.ts).  config is the SecretsConfig record.       *)
(***************************************************************************)
SecretsConfig(passphrase, kmsAlias, region) ==
  [passphrase |-> passphrase, kmsAlias |-> kmsAlias, region |-> region]

\* const kmsAlias = secretsConfig.kmsAlias || "alias/pulumi-secrets", prefixed
KmsKeyIdOf(config) ==
  WithAliasPrefix(IF Truthy(config.kmsAlias) THEN config.kmsAlias ELSE DefaultKmsAlias)

ChangeSecretsCmd(stack, secretsProvider, config) ==
  Lit(<<"pulumi", "stack", "change-secrets-provider">>)
    \o << CASE secretsProvider = "passphrase" -> S("passphrase")
            [] secretsProvider = "awskms" -> KmsUrl(KmsKeyIdOf(config), config.region)
            [] OTHER -> S(secretsProvider) >>
    \o <<S("--stack"), stack>>

\* a variant that issues the command in passphrase mode without a passphrase
ChangeSecretProviderWithoutPassphrase(sess, pass, stack, secretsProvider, config, ok) ==
  LET pass2 == IF secretsProvider = "passphrase" THEN config.passphrase ELSE pass
  IN  [entries |-> <<Exec(ChangeSecretsCmd(stack, secretsProvider, config), ok, sess, {}, pass2)>>,
       ret |-> IF ok THEN Val(S(secretsProvider)) ELSE Null,
       pass |-> pass2]

\* the result: commands issued, the value returned (the mode, or null), and
\* the process's PULUMI_CONFIG_PASSPHRASE afterwards
ChangeSecretProvider(sess, pass, stack, secretsProvider, config, ok) ==
  IF secretsProvider = "passphrase" /\ ~Truthy(config.passphrase)
  THEN [entries |-> <<>>, ret |-> Null, pass |-> pass]
  ELSE LET pass2 == IF secretsProvider = "passphrase" THEN config.passphrase ELSE pass
       IN  [entries |-> <<Exec(ChangeSecretsCmd(stack, secretsProvider, config), ok, sess, {}, pass2)>>,
            ret |-> IF ok THEN Val(S(secretsProvider)) ELSE Null,
            pass |-> pass2]

\* the organization tie-break: organization || orgFromStack, then
\* targetOrg ? `${targetOrg}/${stackName}` : stackName
OrgFromStack(stack) == IF IncludesSlash(stack) THEN At0(Split(stack), 0) ELSE Empty

NameFromStack(stack) == IF IncludesSlash(stack) THEN At0(Split(stack), 1) ELSE stack

\* a variant in which the embedded organization wins
TargetStackEmbeddedFirst(stack, organization) ==
  LET targetOrg == IF Truthy(OrgFromStack(stack)) THEN OrgFromStack(stack) ELSE organization
  IN  IF Truthy(targetOrg) THEN targetOrg \o <<"/">> \o NameFromStack(stack)
      ELSE NameFromStack(stack)

TargetStack(stack, organization) ==
  LET targetOrg == IF Truthy(organization) THEN organization ELSE OrgFromStack(stack)
  IN  IF Truthy(targetOrg) THEN targetOrg \o <<"/">> \o NameFromStack(stack)
      ELSE NameFromStack(stack)

ChangeToDefaultCmd(stack, organization) ==
  Lit(<<"pulumi", "stack", "change-secrets-provider", "default", "--stack">>)
    \o <<TargetStack(stack, organization)>>

ChangeSecretsProviderToDefault(sess, pass, stack, organization, ok) ==
  [entries |-> <<Exec(ChangeToDefaultCmd(stack, organization), ok, sess, {}, pass)>>, ret |-> ok]

(***************************************************************************)
(* loginToS3Backend, loginToS3BackendWithBucket, loginToPulumiCloud        *)
(* (src/src/pulumi/backend.ts).  Each result carries the session after.    *)
(***************************************************************************)
LogoutCmd == Lit(<<"pulumi", "logout">>)

LoginCmd(url) == Lit(<<"pulumi", "login">>) \o (IF url = Empty THEN <<>> ELSE <<url>>)

WhoamiCmd == Lit(<<"pulumi", "whoami">>)

\* a variant that logs in without logging out first
LoginToS3BackendNoLogout(sess, pass, backendUrl, logoutOk, loginOk) ==
  [entries |-> <<Exec(LoginCmd(backendUrl), loginOk, sess, {}, pass)>>,
   ret |-> loginOk, session |-> AfterLogin(sess, backendUrl, loginOk)]

LoginToS3Backend(sess, pass, backendUrl, logoutOk, loginOk) ==
  LET s1 == AfterLogout(sess, logoutOk)
      s2 == AfterLogin(s1, backendUrl, loginOk)
  IN  [entries |-> <<Exec(LogoutCmd, logoutOk, sess, {}, pass),
                     Exec(LoginCmd(backendUrl), loginOk, s1, {}, pass)>>,
       ret |-> loginOk, session |-> s2]

LoginToS3BackendWithBucket(sess, pass, bucket, region, logoutOk, loginOk) ==
  LoginToS3Backend(sess, pass, S3Url(bucket, region), logoutOk, loginOk)

TokenEnv(accessToken) ==
  IF Truthy(accessToken) THEN {<<"PULUMI_ACCESS_TOKEN", accessToken>>} ELSE {}

\* a variant that reports success whatever login and whoami returned
LoginToPulumiCloudUnchecked(sess, pass, accessToken, logoutOk, loginOk, whoamiOk) ==
  LET s1 == AfterLogout(sess, logoutOk)
      s2 == AfterLogin(s1, Empty, loginOk)
  IN  [entries |-> <<Exec(LogoutCmd, logoutOk, sess, {}, pass),
                     Exec(LoginCmd(Empty), loginOk, s1, TokenEnv(accessToken), pass)>>,
       ret |-> TRUE, session |-> s2]

\* a variant that does not read the result of whoami
LoginToPulumiCloudTrustsLogin(sess, pass, accessToken, logoutOk, loginOk, whoamiOk) ==
  LET s1 == AfterLogout(sess, logoutOk)
      s2 == AfterLogin(s1, Empty, loginOk)
      c1 == Exec(LogoutCmd, logoutOk, sess, {}, pass)
      c2 == Exec(LoginCmd(Empty), loginOk, s1, TokenEnv(accessToken), pass)
      c3 == Exec(WhoamiCmd, whoamiOk, s2, {}, pass)
  IN  IF ~loginOk THEN [entries |-> <<c1, c2>>, ret |-> FALSE, session |-> s2]
      ELSE [entries |-> <<c1, c2, c3>>, ret |-> TRUE, session |-> s2]

LoginToPulumiCloud(sess, pass, accessToken, logoutOk, loginOk, whoamiOk) ==
  LET s1 == AfterLogout(sess, logoutOk)
      s2 == AfterLogin(s1, Empty, loginOk)
      c1 == Exec(LogoutCmd, logoutOk, sess, {}, pass)
      c2 == Exec(LoginCmd(Empty), loginOk, s1, TokenEnv(accessToken), pass)
      c3 == Exec(WhoamiCmd, whoamiOk, s2, {}, pass)
  IN  IF ~loginOk THEN [entries |-> <<c1, c2>>, ret |-> FALSE, session |-> s2]
      ELSE [entries |-> <<c1, c2, c3>>, ret |-> whoamiOk, session |-> s2]

(***************************************************************************)
(* exportStackState, importStackState, createStackInS3,                    *)
(* createStackInPulumiCloud, createStack (stack.ts, src/unnamed/part_002)  *)
(***************************************************************************)
\* join(tempDir, `${stack.replaceAll("/", "-")}-state.json`): the first
\* piece is the staging directory
StatePath(stack) == <<MigrateTempDir, "/">> \o ReplaceSlash(stack) \o <<"-state.json">>

ExportCmd(stack) ==
  Lit(<<"pulumi", "stack", "export", "--show-secrets", "--stack">>) \o <<stack>>
    \o <<S("--file"), StatePath(stack)>>

\* a variant that returns the path whatever the command returned
ExportStackStateUnchecked(sess, pass, stack, env, ok) ==
  [entries |-> <<Exec(ExportCmd(stack), ok, sess, env, pass)>>,
   ret |-> Val(StatePath(stack)),
   made |-> {MigrateTempDir}]

\* ensureDir(tempDir) comes first, whatever the command does
ExportStackState(sess, pass, stack, env, ok) ==
  [entries |-> <<Exec(ExportCmd(stack), ok, sess, env, pass)>>,
   ret |-> IF ok THEN Val(StatePath(stack)) ELSE Null,
   made |-> {MigrateTempDir}]

\* stackName || stack, with stackName = stack.includes("/") ? stack.split("/")[1] : stack
ImportName(stack) == IF Truthy(NameFromStack(stack)) THEN NameFromStack(stack) ELSE stack

ImportCmd(stack, statePath) ==
  Lit(<<"pulumi", "stack", "import", "--stack">>) \o <<ImportName(stack)>>
    \o <<S("--file"), statePath>>

\* a variant that reports success whatever the command returned
ImportStackStateUnchecked(sess, pass, stack, statePath, ok) ==
  [entries |-> <<Exec(ImportCmd(stack, statePath), ok, sess, {}, pass)>>, ret |-> TRUE]

ImportStackState(sess, pass, stack, statePath, ok) ==
  [entries |-> <<Exec(ImportCmd(stack, statePath), ok, sess, {}, pass)>>, ret |-> ok]

\* const [orgName, stackName] = stack.split("/")
OrgName(stack) == At0(Split(stack), 0)

StackName(stack) == At0(Split(stack), 1)

HasOrg(stack) == Truthy(OrgName(stack)) /\ Truthy(StackName(stack))

\* a variant that names the KMS key whatever the provider is
InitSecretsArgsAlwaysKms(secretsProvider, config) ==
  <<S("--secrets-provider"), KmsUrl(KmsKeyIdOf(config), config.region)>>

\* the --secrets-provider arguments of the first stack init
InitSecretsArgs(secretsProvider, config) ==
  CASE secretsProvider = "passphrase" -> <<>>
    [] secretsProvider = "awskms" ->
         <<S("--secrets-provider"), KmsUrl(KmsKeyIdOf(config), config.region)>>
    [] secretsProvider # "default" -> <<S("--secrets-provider"), S(secretsProvider)>>
    [] OTHER -> <<>>

\* the --secrets-provider arguments of the unqualified retry
\* A variant whose retry keeps the provider for AWS KMS only.
FallbackSecretsArgsKmsOnly(secretsProvider, config) ==
  CASE secretsProvider = "awskms" ->
         <<S("--secrets-provider"), KmsUrl(KmsKeyIdOf(config), config.region)>>
    [] OTHER -> <<>>

FallbackSecretsArgs(secretsProvider, config) ==
  CASE secretsProvider = "awskms" ->
         <<S("--secrets-provider"), KmsUrl(KmsKeyIdOf(config), config.region)>>
    [] secretsProvider # "default" /\ secretsProvider # "passphrase" ->
         <<S("--secrets-provider"), S(secretsProvider)>>
    [] OTHER -> <<>>

StackInitCmd(stack, secretsProvider, config) ==
  Lit(<<"pulumi", "stack", "init">>)
    \o << IF Truthy(StackName(stack)) THEN StackName(stack) ELSE stack >>
    \o <<S("--non-interactive")>>
    \o InitSecretsArgs(secretsProvider, config)
    \o (IF HasOrg(stack) THEN <<S("--organization"), OrgName(stack)>> ELSE <<>>)

StackInitFallbackCmd(stack, secretsProvider, config) ==
  Lit(<<"pulumi", "stack", "init">>) \o <<StackName(stack)>> \o <<S("--non-interactive")>>
    \o FallbackSecretsArgs(secretsProvider, config)

\* the process's PULUMI_CONFIG_PASSPHRASE after a stack-creating helper
PassAfterInit(pass, secretsProvider, config) ==
  IF secretsProvider = "passphrase" /\ Truthy(config.passphrase) THEN config.passphrase ELSE pass

\* a variant that retries whether or not the reference holds an organization
CreateStackInS3AlwaysRetries(sess, pass, stack, secretsProvider, config, ok1, ok2) ==
  LET pass2 == PassAfterInit(pass, secretsProvider, config)
      c1 == Exec(StackInitCmd(stack, secretsProvider, config), ok1, sess, {}, pass2)
      c2 == Exec(StackInitFallbackCmd(stack, secretsProvider, config), ok2, sess, {}, pass2)
  IN  IF ok1 THEN [entries |-> <<c1>>, ret |-> TRUE, pass |-> pass2]
      ELSE [entries |-> <<c1, c2>>, ret |-> ok2, pass |-> pass2]

\* ok1: the first stack init; ok2: the unqualified retry
CreateStackInS3(sess, pass, stack, secretsProvider, config, ok1, ok2) ==
  LET pass2 == PassAfterInit(pass, secretsProvider, config)
      c1 == Exec(StackInitCmd(stack, secretsProvider, config), ok1, sess, {}, pass2)
      c2 == Exec(StackInitFallbackCmd(stack, secretsProvider, config), ok2, sess, {}, pass2)
  IN  IF ok1 THEN [entries |-> <<c1>>, ret |-> TRUE, pass |-> pass2]
      ELSE IF HasOrg(stack) THEN [entries |-> <<c1, c2>>, ret |-> ok2, pass |-> pass2]
      ELSE [entries |-> <<c1>>, ret |-> FALSE, pass |-> pass2]

CloudStackInitCmd(stack, organization) ==
  LET targetOrg == IF Truthy(organization) THEN organization ELSE OrgFromStack(stack)
  IN  Lit(<<"pulumi", "stack", "init">>)
        \o << IF Truthy(targetOrg) THEN targetOrg \o <<"/">> \o NameFromStack(stack) ELSE stack >>
        \o <<S("--non-interactive")>>

\* a variant that reports success whatever the command returned
CreateStackInPulumiCloudUnchecked(sess, pass, stack, organization, ok) ==
  [entries |-> <<Exec(CloudStackInitCmd(stack, organization), ok, sess, {}, pass)>>, ret |-> TRUE]

CreateStackInPulumiCloud(sess, pass, stack, organization, ok) ==
  [entries |-> <<Exec(CloudStackInitCmd(stack, organization), ok, sess, {}, pass)>>, ret |-> ok]

NewStackCmd(stackName, secretsProvider, config) ==
  Lit(<<"pulumi", "stack", "init">>) \o <<stackName>> \o InitSecretsArgs(secretsProvider, config)

CreateStack(sess, pass, stackName, secretsProvider, config, ok) ==
  LET pass2 == PassAfterInit(pass, secretsProvider, config)
  IN  [entries |-> <<Exec(NewStackCmd(stackName, secretsProvider, config), ok, sess, {}, pass2)>>,
       ret |-> ok, pass |-> pass2]

(***************************************************************************)
(* verifyMigration (stack.ts, src/unnamed/part_002).  The output of        *)
(* `pulumi preview` is a sequence of tokens: the change markers "+", "~",   *)
(* "-", white space, decimal digits, the phrases "to create", "to update", *)
(* "to delete", and any other text.                                        *)
(***************************************************************************)
IsSpace(tok) == tok \in {" ", "\n", "\t"}

IsDigit(tok) == tok \in {"0", "1", "2", "3", "4", "5", "6", "7", "8", "9"}

RECURSIVE SkipSpaces(_, _)
\* the first index from i on that holds no white space
SkipSpaces(text, i) ==
  IF i <= Len(text) /\ IsSpace(text[i]) THEN SkipSpaces(text, i + 1) ELSE i

RECURSIVE SkipDigits(_, _)
SkipDigits(text, i) ==
  IF i <= Len(text) /\ IsDigit(text[i]) THEN SkipDigits(text, i + 1) ELSE i

\* output.match(/<marker>\s+\d+\s+<phrase>/)
MatchesCount(text, marker, phrase) ==
  \E i \in 1..Len(text) :
    /\ text[i] = marker
    /\ LET j == SkipSpaces(text, i + 1)
           k == SkipDigits(text, j)
           m == SkipSpaces(text, k)
       IN  j > i + 1 /\ k > j /\ m > k /\ m <= Len(text) /\ text[m] = phrase

\* output.includes(marker + " ")
IncludesMarker(text, marker) ==
  \E i \in 1..(Len(text) - 1) : text[i] = marker /\ text[i + 1] = " "

HasChanges(text) ==
  \/ IncludesMarker(text, "+") /\ MatchesCount(text, "+", "to create")
  \/ IncludesMarker(text, "~") /\ MatchesCount(text, "~", "to update")
  \/ IncludesMarker(text, "-") /\ MatchesCount(text, "-", "to delete")

PreviewCmd(stack, organization) ==
  Lit(<<"pulumi", "preview", "--stack">>) \o <<TargetStack(stack, organization)>> \o <<S("--diff")>>

\* ok: the exit status of the preview; output: what the runner returns
VerifyMigration(sess, pass, stack, organization, ok, output) ==
  [entries |-> <<Printed(Exec(PreviewCmd(stack, organization), ok, sess, {}, pass), output)>>,
   ret |-> ~(~ok \/ HasChanges(output))]

\* the preview summaries that the workflows are run against
UnchangedText == <<"Resources:", "\n", " ", "5", " ", "unchanged">>

CreateText == <<"Resources:", "\n", " ", "+", " ", "2", " ", "to create">>

PreviewTexts == {UnchangedText, CreateText}

\* what the runner returns for a preview that exits non-zero: its stderr
PreviewErrorText == <<"error:", " ", "preview", " ", "failed">>

\* the results of the preview command: exit status and output
PreviewResults ==
  {[ok |-> TRUE, output |-> t] : t \in PreviewTexts} \cup {[ok |-> FALSE, output |-> PreviewErrorText]}

(***************************************************************************)
(* deleteSourceStack, cleanUpTempFiles (stack.ts, src/unnamed/part_002)    *)
(***************************************************************************)
StackRmCmd(stack) ==
  Lit(<<"pulumi", "stack", "rm", "--stack">>) \o <<stack>> \o Lit(<<"--force", "--yes">>)

\* o[1..5]: the outcomes of logout, login (source), stack rm, logout, login
\* (destination)
DeleteSourceStack(sess, pass, stack, switchBackUrl, switchToCloud, o) ==
  LET srcUrl == IF switchToCloud THEN Empty ELSE switchBackUrl
      dstUrl == IF switchToCloud THEN switchBackUrl ELSE Empty
      s1 == AfterLogout(sess, o[1])
      s2 == AfterLogin(s1, srcUrl, o[2])
      s4 == AfterLogout(s2, o[4])
      s5 == AfterLogin(s4, dstUrl, o[5])
      c1 == Exec(LogoutCmd, o[1], sess, {}, pass)
      c2 == Exec(LoginCmd(srcUrl), o[2], s1, {}, pass)
      c3 == Exec(StackRmCmd(stack), o[3], s2, {}, pass)
      c4 == Exec(LogoutCmd, o[4], s2, {}, pass)
      c5 == Exec(LoginCmd(dstUrl), o[5], s4, {}, pass)
  IN  IF ~switchToCloud /\ ~o[2]
      THEN [entries |-> <<c1, c2>>, ret |-> FALSE, session |-> s2]
      ELSE IF ~o[3]
      THEN [entries |-> <<c1, c2, c3>>, ret |-> FALSE, session |-> s2]
      ELSE [entries |-> <<c1, c2, c3, c4, c5>>, ret |-> TRUE, session |-> s5]

\* the outcome vectors of deleteSourceStack: the outcome of a command that is
\* not issued is not chosen
DeleteOutcomes(switchToCloud) ==
  { o \in [1..5 -> BOOLEAN] :
      /\ (~switchToCloud /\ ~o[2]) => (o[3] /\ o[4] /\ o[5])
      /\ ~o[3] => (o[4] /\ o[5]) }

\* Deno.remove(tempDir, {recursive: true}): the directory is gone afterwards;
\* removing a directory that does not exist throws, which is caught
CleanUpTempFiles(existing, dirName) == existing \ {dirName}

(***************************************************************************)
(* The workflow functions' local state.  ok and bad hold the steps whose   *)
(* helper returned success and failure: the values of the result variables *)
(* (bucketCreated, statePath, s3LoginSuccess, stackCreateSuccess,          *)
(* importSuccess, verificationSuccess, deleteSuccess, ...).                *)
(***************************************************************************)
InitLoc ==
  [bucket |-> Empty, backend |-> Empty, provider |-> "", passphrase |-> Empty,
   finalKmsAlias |-> Empty, projectExists |-> FALSE, statePath |-> Null,
   ok |-> {}, bad |-> {}, skipped |-> {}]

Ok(l, step) == [l EXCEPT !.ok = @ \cup {step}]

Bad(l, step) == [l EXCEPT !.bad = @ \cup {step}]

Result(l, step, success) == IF success THEN Ok(l, step) ELSE Bad(l, step)

Skipped(l, step) == [l EXCEPT !.skipped = @ \cup {step}]

(***************************************************************************)
(* cloudToS3Command (commands/cloud-to-s3.ts, src/unnamed/part_003)        *)
(***************************************************************************)
\* lines 121-126: the required argument
CloudToS3_Start ==
  /\ wf = "cloudToS3" /\ pc = "start"
  /\ IF ~Truthy(args.stack) THEN Exit(1) ELSE pc' = "prereq" /\ UNCHANGED exitCode
  /\ UNCHANGED <<wf, args, loc, cmds, asked, session, dirs, penv, failures>>

\* lines 161-192: resolve the bucket, probe it, create it when missing
CloudToS3_Bucket ==
  /\ wf = "cloudToS3" /\ pc = "bucket"
  /\ \E resp \in (IF ~Truthy(args.bucket) /\ args.interactive THEN BucketResponses ELSE {NullResponse}),
        bucketExists \in BOOLEAN, o \in StopAtFirstFailure(4) :
       LET bucket == IF Truthy(args.bucket) THEN args.bucket
                     ELSE Prompt(args.interactive, SuggestedBucketName, resp)
           head == Probe(HeadBucketCmd(bucket, args.region), bucketExists, session, penv)
           made == CreateS3Bucket(session, penv, bucket, args.region, o)
           l1 == [loc EXCEPT !.bucket = bucket]
       IN  IF bucketExists
           THEN /\ o = [i \in 1..4 |-> TRUE]
                /\ Issue(<<head>>)
                /\ loc' = l1
                /\ pc' = "perms" /\ UNCHANGED exitCode
           ELSE IF args.createBucket
           THEN /\ Issue(<<head>> \o made.entries)
                /\ loc' = Result(l1, "bucket", made.ret)
                /\ IF made.ret THEN pc' = "perms" /\ UNCHANGED exitCode ELSE Exit(1)
           ELSE /\ o = [i \in 1..4 |-> TRUE]
                /\ Issue(<<head>>)
                /\ loc' = l1
                /\ Exit(1)
  /\ UNCHANGED <<wf, args, asked, session, dirs, penv>>

\* the outputs of get-bucket-policy the workflows are run against
WorkflowPolicies ==
  { NoPolicyText,
    PolicyDoc(TRUE, TRUE, <<[sid |-> "Other", effect |-> "Deny", principal |-> "*"]>>) }

\* lines 194-196: the result of checkAndFixS3Permissions is not read
CloudToS3_Permissions ==
  /\ wf = "cloudToS3" /\ pc = "perms"
  /\ IF args.fixPermissions
     THEN \E idOk \in BOOLEAN, getOk \in BOOLEAN, doc \in WorkflowPolicies, putOk \in BOOLEAN :
            LET r == CheckAndFixS3Permissions(session, penv, loc.bucket, args.region,
                                              idOk, idOk, getOk, doc, putOk)
            IN  /\ ~idOk => (getOk /\ putOk /\ doc = NoPolicyText)
                /\ ~getOk => doc = NoPolicyText
                /\ Issue(r.entries)
                /\ loc' = Result(loc, "perms", r.ret)
     ELSE /\ Issue(<<>>)
          /\ loc' = Skipped(loc, "perms")
  /\ pc' = "kms"
  /\ UNCHANGED <<wf, args, asked, session, dirs, penv, exitCode>>

\* lines 198-229: the KMS alias, and PULUMI_CONFIG_PASSPHRASE
CloudToS3_Kms ==
  /\ wf = "cloudToS3" /\ pc = "kms"
  /\ IF args.secretsProvider = "awskms"
     THEN \E kmsExists \in BOOLEAN, keyOk \in BOOLEAN, jsonOk \in BOOLEAN, aliasOk \in BOOLEAN :
            LET aliasName == WithAliasPrefix(args.kmsAlias)
                probe == Probe(DescribeKeyCmd(aliasName, args.region), kmsExists, session, penv)
                made == CreateKmsKeyAndAlias(session, penv, aliasName, args.region,
                                             keyOk, jsonOk, aliasOk)
                setPass == IF Truthy(args.passphrase) THEN args.passphrase ELSE penv
            IN  IF kmsExists
                THEN /\ keyOk /\ jsonOk /\ aliasOk
                     /\ Issue(<<probe>>)
                     /\ loc' = [loc EXCEPT !.finalKmsAlias = args.kmsAlias]
                     /\ UNCHANGED penv
                ELSE IF args.createKms
                THEN /\ ~keyOk => (jsonOk /\ aliasOk)
                     /\ ~jsonOk => aliasOk
                     /\ Issue(<<probe>> \o made.entries)
                     /\ IF made.ret.null
                        THEN /\ loc' = Bad([loc EXCEPT !.finalKmsAlias = args.kmsAlias], "kms")
                             /\ penv' = setPass
                        ELSE /\ loc' = Ok([loc EXCEPT !.finalKmsAlias = made.ret.val], "kms")
                             /\ UNCHANGED penv
                ELSE /\ keyOk /\ jsonOk /\ aliasOk
                     /\ Issue(<<probe>>)
                     /\ loc' = Skipped([loc EXCEPT !.finalKmsAlias = args.kmsAlias], "kms")
                     /\ penv' = setPass
     ELSE /\ Issue(<<>>)
          /\ loc' = [loc EXCEPT !.finalKmsAlias = args.kmsAlias]
          /\ penv' = IF args.secretsProvider = "passphrase" /\ Truthy(args.passphrase)
                     THEN args.passphrase ELSE penv
  /\ pc' = "changeSecrets"
  /\ UNCHANGED <<wf, args, asked, session, dirs, exitCode>>

\* lines 237-239: the result of changeSecretProvider is not read
\* A variant that treats a failed provider change like the other migration
\* steps do: it aborts the run.
CloudToS3_ChangeSecretProviderChecked ==
  /\ wf = "cloudToS3" /\ pc = "changeSecrets"
  /\ \E ok \in BOOLEAN :
       LET config == SecretsConfig(args.passphrase, loc.finalKmsAlias, args.region)
           r == ChangeSecretProvider(session, penv, args.stack, args.secretsProvider, config, ok)
       IN  /\ r.entries = <<>> => ok
           /\ Issue(r.entries)
           /\ penv' = r.pass
           /\ loc' = Result(loc, "changeSecrets", ~r.ret.null)
           /\ IF r.ret.null THEN Exit(1) ELSE pc' = "export" /\ UNCHANGED exitCode
  /\ UNCHANGED <<wf, args, asked, session, dirs>>

CloudToS3_ChangeSecretProvider ==
  /\ wf = "cloudToS3" /\ pc = "changeSecrets"
  /\ \E ok \in BOOLEAN :
       LET config == SecretsConfig(args.passphrase, loc.finalKmsAlias, args.region)
           r == ChangeSecretProvider(session, penv, args.stack, args.secretsProvider, config, ok)
       IN  /\ r.entries = <<>> => ok
           /\ Issue(r.entries)
           /\ penv' = r.pass
           /\ loc' = Result(loc, "changeSecrets", ~r.ret.null)
  /\ pc' = "export"
  /\ UNCHANGED <<wf, args, asked, session, dirs, exitCode>>

\* lines 241-245
\* A variant that exports again after a failed export instead of aborting.
CloudToS3_ExportRetries ==
  /\ wf = "cloudToS3" /\ pc = "export"
  /\ \E ok \in BOOLEAN :
       LET r == ExportStackState(session, penv, args.stack, {}, ok)
       IN  /\ Issue(r.entries)
           /\ dirs' = dirs \cup r.made
           /\ loc' = Result([loc EXCEPT !.statePath = r.ret], "export", ~r.ret.null)
           /\ pc' = IF r.ret.null THEN "export" ELSE "s3login"
  /\ UNCHANGED <<wf, args, asked, session, penv, exitCode>>

CloudToS3_Export ==
  /\ wf = "cloudToS3" /\ pc = "export"
  /\ \E ok \in BOOLEAN :
       LET r == ExportStackState(session, penv, args.stack, {}, ok)
       IN  /\ Issue(r.entries)
           /\ dirs' = dirs \cup r.made
           /\ loc' = Result([loc EXCEPT !.statePath = r.ret], "export", ~r.ret.null)
           /\ IF r.ret.null THEN Exit(1) ELSE pc' = "s3login" /\ UNCHANGED exitCode
  /\ UNCHANGED <<wf, args, asked, session, penv>>

\* lines 247-251
CloudToS3_Login ==
  /\ wf = "cloudToS3" /\ pc = "s3login"
  /\ \E logoutOk \in BOOLEAN, loginOk \in BOOLEAN :
       LET r == LoginToS3BackendWithBucket(session, penv, loc.bucket, args.region, logoutOk, loginOk)
       IN  /\ Issue(r.entries)
           /\ session' = r.session
           /\ loc' = Result(loc, "login", r.ret)
           /\ IF r.ret THEN pc' = "create" /\ UNCHANGED exitCode ELSE Exit(1)
  /\ UNCHANGED <<wf, args, asked, dirs, penv>>

\* lines 253-257
CloudToS3_CreateStack ==
  /\ wf = "cloudToS3" /\ pc = "create"
  /\ \E ok1 \in BOOLEAN, ok2 \in BOOLEAN :
       LET config == SecretsConfig(args.passphrase, loc.finalKmsAlias, args.region)
           r == CreateStackInS3(session, penv, args.stack, args.secretsProvider, config, ok1, ok2)
       IN  /\ Len(r.entries) = 1 => ok2
           /\ Issue(r.entries)
           /\ penv' = r.pass
           /\ loc' = Result(loc, "create", r.ret)
           /\ IF r.ret THEN pc' = "import" /\ UNCHANGED exitCode ELSE Exit(1)
  /\ UNCHANGED <<wf, args, asked, session, dirs>>

\* lines 259-263
CloudToS3_Import ==
  /\ wf = "cloudToS3" /\ pc = "import"
  /\ \E ok \in BOOLEAN :
       LET r == ImportStackState(session, penv, args.stack, loc.statePath.val, ok)
       IN  /\ Issue(r.entries)
           /\ loc' = Result(loc, "import", r.ret)
           /\ IF r.ret THEN pc' = "verify" /\ UNCHANGED exitCode ELSE Exit(1)
  /\ UNCHANGED <<wf, args, asked, session, dirs, penv>>

\* lines 265-281: verification, and the prompt when it fails
CloudToS3_Verify ==
  /\ wf = "cloudToS3" /\ pc = "verify"
  /\ IF args.skipVerify
     THEN /\ Issue(<<>>)
          /\ loc' = Skipped(loc, "verify")
          /\ pc' = "delete"
          /\ UNCHANGED <<asked, dirs, exitCode>>
     ELSE \E pr \in PreviewResults :
            LET r == VerifyMigration(session, penv, args.stack, Empty, pr.ok, pr.output)
            IN  /\ Issue(r.entries)
                /\ IF r.ret
                   THEN /\ loc' = Ok(loc, "verify")
                        /\ pc' = "delete"
                        /\ UNCHANGED <<asked, dirs, exitCode>>
                   ELSE \E resp \in ConfirmInputs :
                          /\ asked' = Append(asked, Asked("continue-migration", resp))
                          /\ IF Confirm(args.yes, args.interactive, FALSE, resp)
                             THEN /\ loc' = Ok(Bad(loc, "verify"), "proceed")
                                  /\ pc' = "delete"
                                  /\ UNCHANGED <<dirs, exitCode>>
                             ELSE /\ loc' = Bad(Bad(loc, "verify"), "proceed")
                                  /\ dirs' = CleanUpTempFiles(dirs, MigrateTempDir)
                                  /\ Exit(1)
  /\ UNCHANGED <<wf, args, session, penv>>

\* lines 283-297: the optional deletion of the source stack
CloudToS3_DeleteSource ==
  /\ wf = "cloudToS3" /\ pc = "delete"
  /\ IF ~args.deleteSource
     THEN /\ Issue(<<>>)
          /\ UNCHANGED <<asked, session, loc>>
     ELSE \E resp \in (IF args.yes THEN {NullResponse} ELSE ConfirmInputs) :
            LET shouldDelete == args.yes \/ Confirm(args.yes, args.interactive, FALSE, resp)
            IN  /\ asked' = IF args.yes THEN asked ELSE Append(asked, Asked("delete-source", resp))
                /\ IF shouldDelete
                   THEN \E o \in DeleteOutcomes(TRUE) :
                          LET r == DeleteSourceStack(session, penv, args.stack,
                                                     S3Url(loc.bucket, args.region), TRUE, o)
                          IN  /\ Issue(r.entries)
                              /\ session' = r.session
                              /\ loc' = Result(loc, "delete", r.ret)
                   ELSE /\ Issue(<<>>)
                        /\ loc' = Skipped(loc, "delete")
                        /\ UNCHANGED session
  /\ pc' = "cleanup"
  /\ UNCHANGED <<wf, args, dirs, penv, exitCode>>

\* lines 299-329: cleanup, the success report, and the return: the process
\* then ends with status 0
CloudToS3_Finish ==
  /\ wf = "cloudToS3" /\ pc = "cleanup"
  /\ dirs' = CleanUpTempFiles(dirs, MigrateTempDir)
  /\ pc' = "done"
  /\ exitCode' = 0
  /\ UNCHANGED <<wf, args, loc, cmds, asked, session, penv, failures>>

(***************************************************************************)
(* parseS3BackendUrl (src/src/pulumi/backend.ts): the cases in which it    *)
(* throws.  The pieces after "s3://" up to the query are the bucket.       *)
(***************************************************************************)
IsQueryStart(piece) == piece \in {"?", "?region="}

RECURSIVE BucketPart(_)
BucketPart(rest) ==
  IF rest = <<>> \/ IsQueryStart(Head(rest)) THEN <<>>
  ELSE <<Head(rest)>> \o BucketPart(Tail(rest))

ParseThrows(backendUrl) ==
  \/ ~(Len(backendUrl) > 0 /\ backendUrl[1] = "s3://")
  \/ ~Truthy(BucketPart(Tail(backendUrl)))

(***************************************************************************)
(* s3ToCloudCommand (src/src/commands/s3-to-cloud.ts)                      *)
(***************************************************************************)
\* lines 75-80: the required arguments
S3ToCloud_Start ==
  /\ wf = "s3ToCloud" /\ pc = "start"
  /\ IF ~Truthy(args.stack) \/ ~Truthy(args.organization)
     THEN Exit(1)
     ELSE pc' = "prereq" /\ UNCHANGED exitCode
  /\ UNCHANGED <<wf, args, loc, cmds, asked, session, dirs, penv, failures>>

\* lines 96-139: the source backend URL, given or built; an exception of
\* parseS3BackendUrl is not caught, and ends the process with status 1
S3ToCloud_Backend ==
  /\ wf = "s3ToCloud" /\ pc = "backend"
  /\ \E resp \in (IF ~Truthy(args.backend) /\ args.interactive THEN BucketResponses ELSE {NullResponse}) :
       IF Truthy(args.backend)
       THEN IF ParseThrows(args.backend)
            THEN Exit(1) /\ UNCHANGED loc
            ELSE /\ loc' = [loc EXCEPT !.backend = args.backend]
                 /\ pc' = "s3login" /\ UNCHANGED exitCode
       ELSE /\ loc' = [loc EXCEPT !.backend =
                  IF args.interactive
                  THEN <<"s3://">> \o Prompt(TRUE, SuggestedBucketName, resp)
                         \o <<"\\", "?region=">> \o Region
                  ELSE <<"s3://">> \o SuggestedBucketName]
            /\ pc' = "s3login" /\ UNCHANGED exitCode
  /\ UNCHANGED <<wf, args, cmds, asked, session, dirs, penv, failures>>

\* lines 144-149
S3ToCloud_LoginSource ==
  /\ wf = "s3ToCloud" /\ pc = "s3login"
  /\ \E logoutOk \in BOOLEAN, loginOk \in BOOLEAN :
       LET r == LoginToS3Backend(session, penv, loc.backend, logoutOk, loginOk)
       IN  /\ Issue(r.entries)
           /\ session' = r.session
           /\ loc' = Result(loc, "sourceLogin", r.ret)
           /\ IF r.ret THEN pc' = "export" /\ UNCHANGED exitCode ELSE Exit(1)
  /\ UNCHANGED <<wf, args, asked, dirs, penv>>

\* lines 151-162
S3ToCloud_Export ==
  /\ wf = "s3ToCloud" /\ pc = "export"
  /\ \E ok \in BOOLEAN :
       LET env == IF Truthy(args.passphrase)
                  THEN {<<"PULUMI_CONFIG_PASSPHRASE", args.passphrase>>} ELSE {}
           r == ExportStackState(session, penv, args.stack, env, ok)
       IN  /\ Issue(r.entries)
           /\ dirs' = dirs \cup r.made
           /\ loc' = Result([loc EXCEPT !.statePath = r.ret], "export", ~r.ret.null)
           /\ IF r.ret.null THEN Exit(1) ELSE pc' = "cloudlogin" /\ UNCHANGED exitCode
  /\ UNCHANGED <<wf, args, asked, session, penv>>

\* lines 167-176
S3ToCloud_LoginCloud ==
  /\ wf = "s3ToCloud" /\ pc = "cloudlogin"
  /\ \E logoutOk \in BOOLEAN, loginOk \in BOOLEAN, whoamiOk \in BOOLEAN :
       LET r == LoginToPulumiCloud(session, penv, args.accessToken, logoutOk, loginOk, whoamiOk)
       IN  /\ ~loginOk => whoamiOk
           /\ Issue(r.entries)
           /\ session' = r.session
           /\ loc' = Result(loc, "login", r.ret)
           /\ IF r.ret THEN pc' = "create" /\ UNCHANGED exitCode ELSE Exit(1)
  /\ UNCHANGED <<wf, args, asked, dirs, penv>>

\* lines 178-182
S3ToCloud_CreateStack ==
  /\ wf = "s3ToCloud" /\ pc = "create"
  /\ \E ok \in BOOLEAN :
       LET r == CreateStackInPulumiCloud(session, penv, args.stack, args.organization, ok)
       IN  /\ Issue(r.entries)
           /\ loc' = Result(loc, "create", r.ret)
           /\ IF r.ret THEN pc' = "import" /\ UNCHANGED exitCode ELSE Exit(1)
  /\ UNCHANGED <<wf, args, asked, session, dirs, penv>>

\* lines 184-188
S3ToCloud_Import ==
  /\ wf = "s3ToCloud" /\ pc = "import"
  /\ \E ok \in BOOLEAN :
       LET r == ImportStackState(session, penv, args.stack, loc.statePath.val, ok)
       IN  /\ Issue(r.entries)
           /\ loc' = Result(loc, "import", r.ret)
           /\ IF r.ret THEN pc' = "reset" /\ UNCHANGED exitCode ELSE Exit(1)
  /\ UNCHANGED <<wf, args, asked, session, dirs, penv>>

\* lines 190-200: the secrets provider is set back to the service's own
S3ToCloud_ResetSecrets ==
  /\ wf = "s3ToCloud" /\ pc = "reset"
  /\ \E ok \in BOOLEAN :
       LET r == ChangeSecretsProviderToDefault(session, penv, args.stack, args.organization, ok)
       IN  /\ Issue(r.entries)
           /\ IF r.ret
              THEN /\ loc' = Ok(loc, "reset")
                   /\ pc' = "verify"
                   /\ UNCHANGED <<asked, dirs, exitCode>>
              ELSE \E resp \in ConfirmInputs :
                     /\ asked' = Append(asked, Asked("continue-anyway", resp))
                     /\ IF Confirm(args.yes, args.interactive, FALSE, resp)
                        THEN /\ loc' = Ok(Bad(loc, "reset"), "proceedReset")
                             /\ pc' = "verify"
                             /\ UNCHANGED <<dirs, exitCode>>
                        ELSE /\ loc' = Bad(Bad(loc, "reset"), "proceedReset")
                             /\ dirs' = CleanUpTempFiles(dirs, CloudMigrateTempDir)
                             /\ Exit(1)
  /\ UNCHANGED <<wf, args, session, penv>>

\* lines 203-219
S3ToCloud_Verify ==
  /\ wf = "s3ToCloud" /\ pc = "verify"
  /\ IF args.skipVerify
     THEN /\ Issue(<<>>)
          /\ loc' = Skipped(loc, "verify")
          /\ pc' = "delete"
          /\ UNCHANGED <<asked, dirs, exitCode>>
     ELSE \E pr \in PreviewResults :
            LET r == VerifyMigration(session, penv, args.stack, args.organization, pr.ok, pr.output)
            IN  /\ Issue(r.entries)
                /\ IF r.ret
                   THEN /\ loc' = Ok(loc, "verify")
                        /\ pc' = "delete"
                        /\ UNCHANGED <<asked, dirs, exitCode>>
                   ELSE \E resp \in ConfirmInputs :
                          /\ asked' = Append(asked, Asked("continue-migration", resp))
                          /\ IF Confirm(args.yes, args.interactive, FALSE, resp)
                             THEN /\ loc' = Ok(Bad(loc, "verify"), "proceed")
                                  /\ pc' = "delete"
                                  /\ UNCHANGED <<dirs, exitCode>>
                             ELSE /\ loc' = Bad(Bad(loc, "verify"), "proceed")
                                  /\ dirs' = CleanUpTempFiles(dirs, CloudMigrateTempDir)
                                  /\ Exit(1)
  /\ UNCHANGED <<wf, args, session, penv>>

\* lines 222-236
S3ToCloud_DeleteSource ==
  /\ wf = "s3ToCloud" /\ pc = "delete"
  /\ IF ~args.deleteSource
     THEN /\ Issue(<<>>)
          /\ UNCHANGED <<asked, session, loc>>
     ELSE \E resp \in (IF args.yes THEN {NullResponse} ELSE ConfirmInputs) :
            LET shouldDelete == args.yes \/ Confirm(args.yes, args.interactive, FALSE, resp)
            IN  /\ asked' = IF args.yes THEN asked ELSE Append(asked, Asked("delete-source", resp))
                /\ IF shouldDelete
                   THEN \E o \in DeleteOutcomes(FALSE) :
                          LET r == DeleteSourceStack(session, penv, args.stack, loc.backend, FALSE, o)
                          IN  /\ Issue(r.entries)
                              /\ session' = r.session
                              /\ loc' = Result(loc, "delete", r.ret)
                   ELSE /\ Issue(<<>>)
                        /\ loc' = Skipped(loc, "delete")
                        /\ UNCHANGED session
  /\ pc' = "cleanup"
  /\ UNCHANGED <<wf, args, dirs, penv, exitCode>>

\* lines 238-270: cleanup, the success report, and the return
S3ToCloud_Finish ==
  /\ wf = "s3ToCloud" /\ pc = "cleanup"
  /\ dirs' = CleanUpTempFiles(dirs, CloudMigrateTempDir)
  /\ pc' = "done"
  /\ exitCode' = 0
  /\ UNCHANGED <<wf, args, loc, cmds, asked, session, penv, failures>>

(***************************************************************************)
(* initPulumiProject (src/src/pulumi/project.ts)                           *)
(***************************************************************************)
NewProjectCmd(name, description, template) ==
  Lit(<<"pulumi", "new">>) \o <<S(template)>> \o Lit(<<"--force", "--yes">>)
    \o (IF Truthy(name) THEN <<S("--name"), name>> ELSE <<>>)
    \o (IF Truthy(description) THEN <<S("--description"), description>> ELSE <<>>)

InitPulumiProject(sess, pass, name, description, template, ok) ==
  [entries |-> <<Exec(NewProjectCmd(name, description, template), ok, sess, {}, pass)>>,
   ret |-> ok]

(***************************************************************************)
(* initCommand (src/src/commands/init.ts)                                  *)
(***************************************************************************)
\* basename(Deno.cwd()), lower-cased and sanitised
DefaultProjectName == S("proj")

PassphraseResponses == {NullResponse, Typed(S("typed-pass"))}

\* lines 72-86: there is no required argument
Init_Start ==
  /\ wf = "init" /\ pc = "start"
  /\ pc' = "prereq"
  /\ UNCHANGED <<wf, args, loc, cmds, asked, session, dirs, penv, exitCode, failures>>

\* lines 88-160: the project, stack, bucket and secrets settings, prompted
\* for when interactive (an empty answer keeps the default)
Init_Configure ==
  /\ wf = "init" /\ pc = "project"
  /\ \E projectExists \in BOOLEAN,
        bresp \in (IF ~Truthy(args.bucket) /\ args.interactive THEN BucketResponses ELSE {NullResponse}),
        presp \in (IF args.interactive /\ args.secretsProvider = "passphrase"
                   THEN PassphraseResponses ELSE {NullResponse}) :
       LET bucket == IF Truthy(args.bucket) THEN args.bucket
                     ELSE Prompt(args.interactive, SuggestedBucketName, bresp)
           passphrase == IF args.interactive /\ args.secretsProvider = "passphrase"
                         THEN Prompt(TRUE, Empty, presp) ELSE args.passphrase
       IN  /\ loc' = [loc EXCEPT !.projectExists = projectExists, !.bucket = bucket,
                                 !.provider = args.secretsProvider, !.passphrase = passphrase,
                                 !.finalKmsAlias = args.kmsAlias]
           /\ penv' = IF args.interactive /\ args.secretsProvider = "passphrase" /\ Truthy(passphrase)
                      THEN passphrase ELSE penv
  /\ pc' = "bucket"
  /\ UNCHANGED <<wf, args, cmds, asked, session, dirs, exitCode, failures>>

\* lines 164-179: probe the bucket, create it when missing
Init_Bucket ==
  /\ wf = "init" /\ pc = "bucket"
  /\ \E bucketExists \in BOOLEAN, o \in StopAtFirstFailure(4) :
       LET head == Probe(HeadBucketCmd(loc.bucket, args.region), bucketExists, session, penv)
           made == CreateS3Bucket(session, penv, loc.bucket, args.region, o)
       IN  IF bucketExists
           THEN /\ o = [i \in 1..4 |-> TRUE]
                /\ Issue(<<head>>)
                /\ UNCHANGED loc
                /\ pc' = "perms" /\ UNCHANGED exitCode
           ELSE IF args.createBucket
           THEN /\ Issue(<<head>> \o made.entries)
                /\ loc' = Result(loc, "bucket", made.ret)
                /\ IF made.ret THEN pc' = "perms" /\ UNCHANGED exitCode ELSE Exit(1)
           ELSE /\ o = [i \in 1..4 |-> TRUE]
                /\ Issue(<<head>>)
                /\ UNCHANGED loc
                /\ Exit(1)
  /\ UNCHANGED <<wf, args, asked, session, dirs, penv>>

\* a variant that reconciles the policy of a bucket it has just created only
Init_PermissionsWhenCreated ==
  /\ wf = "init" /\ pc = "perms"
  /\ \E idOk \in BOOLEAN, getOk \in BOOLEAN, doc \in WorkflowPolicies, putOk \in BOOLEAN :
       LET r == CheckAndFixS3Permissions(session, penv, loc.bucket, args.region,
                                         idOk, idOk, getOk, doc, putOk)
       IN  IF "bucket" \in loc.ok
           THEN /\ ~idOk => (getOk /\ putOk /\ doc = NoPolicyText)
                /\ ~getOk => doc = NoPolicyText
                /\ Issue(r.entries)
                /\ loc' = Result(loc, "perms", r.ret)
           ELSE /\ idOk /\ getOk /\ putOk /\ doc = NoPolicyText
                /\ Issue(<<>>)
                /\ loc' = Skipped(loc, "perms")
  /\ pc' = "kms"
  /\ UNCHANGED <<wf, args, asked, session, dirs, penv, exitCode>>

\* lines 174 and 182: the bucket policy is reconciled on both branches, and
\* the result is not read
Init_Permissions ==
  /\ wf = "init" /\ pc = "perms"
  /\ \E idOk \in BOOLEAN, getOk \in BOOLEAN, doc \in WorkflowPolicies, putOk \in BOOLEAN :
       LET r == CheckAndFixS3Permissions(session, penv, loc.bucket, args.region,
                                         idOk, idOk, getOk, doc, putOk)
       IN  /\ ~idOk => (getOk /\ putOk /\ doc = NoPolicyText)
           /\ ~getOk => doc = NoPolicyText
           /\ Issue(r.entries)
           /\ loc' = Result(loc, "perms", r.ret)
  /\ pc' = "kms"
  /\ UNCHANGED <<wf, args, asked, session, dirs, penv, exitCode>>

\* lines 186-215: without a usable key the provider becomes "default"
Init_Kms ==
  /\ wf = "init" /\ pc = "kms"
  /\ IF loc.provider = "awskms"
     THEN \E kmsExists \in BOOLEAN, keyOk \in BOOLEAN, jsonOk \in BOOLEAN, aliasOk \in BOOLEAN :
            LET aliasName == WithAliasPrefix(args.kmsAlias)
                probe == Probe(DescribeKeyCmd(aliasName, args.region), kmsExists, session, penv)
                made == CreateKmsKeyAndAlias(session, penv, aliasName, args.region,
                                             keyOk, jsonOk, aliasOk)
            IN  IF kmsExists
                THEN /\ keyOk /\ jsonOk /\ aliasOk
                     /\ Issue(<<probe>>)
                     /\ UNCHANGED loc
                ELSE IF args.createKms
                THEN /\ ~keyOk => (jsonOk /\ aliasOk)
                     /\ ~jsonOk => aliasOk
                     /\ Issue(<<probe>> \o made.entries)
                     /\ loc' = IF made.ret.null
                               THEN Bad([loc EXCEPT !.provider = "default"], "kms")
                               ELSE Ok([loc EXCEPT !.finalKmsAlias = made.ret.val], "kms")
                ELSE /\ keyOk /\ jsonOk /\ aliasOk
                     /\ Issue(<<probe>>)
                     /\ loc' = Skipped([loc EXCEPT !.provider = "default"], "kms")
     ELSE /\ Issue(<<>>)
          /\ UNCHANGED loc
  /\ penv' = IF loc.provider = "passphrase" /\ Truthy(loc.passphrase)
             THEN loc.passphrase ELSE penv
  /\ pc' = "s3login"
  /\ UNCHANGED <<wf, args, asked, session, dirs, exitCode>>

\* lines 220-225
Init_Login ==
  /\ wf = "init" /\ pc = "s3login"
  /\ \E logoutOk \in BOOLEAN, loginOk \in BOOLEAN :
       LET r == LoginToS3BackendWithBucket(session, penv, loc.bucket, args.region, logoutOk, loginOk)
       IN  /\ Issue(r.entries)
           /\ session' = r.session
           /\ loc' = Result(loc, "login", r.ret)
           /\ IF r.ret THEN pc' = "newproject" /\ UNCHANGED exitCode ELSE Exit(1)
  /\ UNCHANGED <<wf, args, asked, dirs, penv>>

\* lines 227-233
Init_Project ==
  /\ wf = "init" /\ pc = "newproject"
  /\ IF loc.projectExists
     THEN /\ Issue(<<>>)
          /\ loc' = Skipped(loc, "project")
          /\ pc' = "create" /\ UNCHANGED exitCode
     ELSE \E ok \in BOOLEAN :
            LET r == InitPulumiProject(session, penv, DefaultProjectName, Empty, "typescript", ok)
            IN  /\ Issue(r.entries)
                /\ loc' = Result(loc, "project", r.ret)
                /\ IF r.ret THEN pc' = "create" /\ UNCHANGED exitCode ELSE Exit(1)
  /\ UNCHANGED <<wf, args, asked, session, dirs, penv>>

\* lines 235-240
Init_CreateStack ==
  /\ wf = "init" /\ pc = "create"
  /\ \E ok \in BOOLEAN :
       LET config == SecretsConfig(loc.passphrase, loc.finalKmsAlias, args.region)
           r == CreateStack(session, penv, args.stack, loc.provider, config, ok)
       IN  /\ Issue(r.entries)
           /\ penv' = r.pass
           /\ loc' = Result(loc, "create", r.ret)
           /\ IF r.ret THEN pc' = "cleanup" /\ UNCHANGED exitCode ELSE Exit(1)
  /\ UNCHANGED <<wf, args, asked, session, dirs>>

\* lines 242-270: the success report, and the return
Init_Finish ==
  /\ wf = "init" /\ pc = "cleanup"
  /\ pc' = "done"
  /\ exitCode' = 0
  /\ UNCHANGED <<wf, args, loc, cmds, asked, session, dirs, penv, failures>>

(***************************************************************************)
(* The runs.                                                               *)
(***************************************************************************)
\* the stack references of the runs: unqualified, and organization-qualified
Stacks == {S("dev"), <<"proj", "/", "dev">>}

\* --yes and --interactive, where they differ in effect
PromptModes ==
  { [yes |-> TRUE, interactive |-> FALSE], [yes |-> FALSE, interactive |-> TRUE],
    [yes |-> FALSE, interactive |-> FALSE] }

\* --secrets-provider, --passphrase, --kms-alias and --create-kms
SecretsSetups ==
  { [secretsProvider |-> "awskms", passphrase |-> pw, kmsAlias |-> ka, createKms |-> ck] :
      pw \in {Empty, S("hunter2")}, ka \in {DefaultKmsAlias, S("team-key")}, ck \in BOOLEAN }
  \cup
  { [secretsProvider |-> sp, passphrase |-> pw, kmsAlias |-> DefaultKmsAlias, createKms |-> TRUE] :
      sp \in {"passphrase", "default"}, pw \in {Empty, S("hunter2")} }

\* the arguments the families below vary
BaseArgs ==
  [stack |-> <<"proj", "/", "dev">>, yes |-> TRUE, interactive |-> FALSE,
   deleteSource |-> TRUE, skipVerify |-> FALSE,
   createBucket |-> TRUE, createKms |-> TRUE, fixPermissions |-> FALSE,
   secretsProvider |-> "awskms", passphrase |-> Empty, kmsAlias |-> DefaultKmsAlias,
   bucket |-> S("proj-state"), region |-> Region,
   organization |-> Empty, accessToken |-> Empty, backend |-> Empty]

\* the argument records of cloudToS3 runs: the flags of the migration phase
\* in every combination, the secrets setups, the flags of the infrastructure
\* phase in every combination, and a run without --stack
CloudToS3Args ==
  { [BaseArgs EXCEPT !.stack = st, !.yes = m.yes, !.interactive = m.interactive,
                     !.deleteSource = ds, !.skipVerify = sv] :
      st \in Stacks, m \in PromptModes, ds \in BOOLEAN, sv \in BOOLEAN }
  \cup
  { [BaseArgs EXCEPT !.stack = st, !.secretsProvider = x.secretsProvider,
                     !.passphrase = x.passphrase, !.kmsAlias = x.kmsAlias,
                     !.createKms = x.createKms] :
      st \in Stacks, x \in SecretsSetups }
  \cup
  { [BaseArgs EXCEPT !.createBucket = cb, !.fixPermissions = fp, !.bucket = bk,
                     !.yes = ~ia, !.interactive = ia] :
      cb \in BOOLEAN, fp \in BOOLEAN, bk \in {S("proj-state"), Empty}, ia \in BOOLEAN }
  \cup
  { [BaseArgs EXCEPT !.stack = Empty] }

\* the --backend values of s3ToCloud runs
Backends ==
  { S3Url(S("proj-state"), Region), <<"s3://", "proj-state">>, <<"s3://">>,
    <<"https://", "proj-state">>, Empty }

\* the argument records of s3ToCloud runs
S3ToCloudBase ==
  [BaseArgs EXCEPT !.organization = S("acme"), !.backend = S3Url(S("proj-state"), Region)]

S3ToCloudArgs ==
  { [S3ToCloudBase EXCEPT !.stack = st, !.yes = m.yes, !.interactive = m.interactive,
                          !.deleteSource = ds, !.skipVerify = sv] :
      st \in Stacks, m \in PromptModes, ds \in BOOLEAN, sv \in BOOLEAN }
  \cup
  { [S3ToCloudBase EXCEPT !.backend = bk, !.yes = ~ia, !.interactive = ia] :
      bk \in Backends, ia \in BOOLEAN }
  \cup
  { [S3ToCloudBase EXCEPT !.accessToken = tk, !.passphrase = pw] :
      tk \in {Empty, S("pul-token")}, pw \in {Empty, S("hunter2")} }
  \cup
  { [S3ToCloudBase EXCEPT !.organization = Empty] }

\* the argument records of init runs
InitBase == [BaseArgs EXCEPT !.stack = S("dev")]

InitArgs ==
  { [InitBase EXCEPT !.secretsProvider = x.secretsProvider, !.passphrase = x.passphrase,
                     !.kmsAlias = x.kmsAlias, !.createKms = x.createKms,
                     !.yes = ~ia, !.interactive = ia] :
      x \in SecretsSetups, ia \in BOOLEAN }
  \cup
  { [InitBase EXCEPT !.createBucket = cb, !.bucket = bk, !.yes = m.yes,
                     !.interactive = m.interactive] :
      cb \in BOOLEAN, bk \in {S("proj-state"), Empty}, m \in PromptModes }

ArgsOf(w) ==
  CASE w = "cloudToS3" -> CloudToS3Args
    [] w = "s3ToCloud" -> S3ToCloudArgs
    [] OTHER -> InitArgs

\* the backend the pulumi CLI is logged into when the tool starts
InitialSession(w) == IF w = "init" THEN NoSession ELSE CloudSession

Init ==
  /\ wf \in {"cloudToS3", "s3ToCloud", "init"}
  /\ args \in ArgsOf(wf)
  /\ pc = "start"
  /\ loc = InitLoc
  /\ cmds = <<>>
  /\ asked = <<>>
  /\ session = InitialSession(wf)
  /\ dirs = {}
  /\ penv = Empty
  /\ exitCode = Running
  /\ failures = 0

Next ==
  \/ RunPrerequisiteChecks
  \/ CloudToS3_Start
  \/ CloudToS3_Bucket
  \/ CloudToS3_Permissions
  \/ CloudToS3_Kms
  \/ CloudToS3_ChangeSecretProvider
  \/ CloudToS3_Export
  \/ CloudToS3_Login
  \/ CloudToS3_CreateStack
  \/ CloudToS3_Import
  \/ CloudToS3_Verify
  \/ CloudToS3_DeleteSource
  \/ CloudToS3_Finish
  \/ S3ToCloud_Start
  \/ S3ToCloud_Backend
  \/ S3ToCloud_LoginSource
  \/ S3ToCloud_Export
  \/ S3ToCloud_LoginCloud
  \/ S3ToCloud_CreateStack
  \/ S3ToCloud_Import
  \/ S3ToCloud_ResetSecrets
  \/ S3ToCloud_Verify
  \/ S3ToCloud_DeleteSource
  \/ S3ToCloud_Finish
  \/ Init_Start
  \/ Init_Configure
  \/ Init_Bucket
  \/ Init_Permissions
  \/ Init_Kms
  \/ Init_Login
  \/ Init_Project
  \/ Init_CreateStack
  \/ Init_Finish

Spec == Init /\ [][Next]_vars

\* Each workflow is one async function whose steps are awaited in sequence:
\* once an external command has returned or a prompt has been answered, the
\* next step runs. A step that can be taken is eventually taken.
SpecLive == Spec /\ WF_vars(Next)

(***************************************************************************)
(* verifyMigration on its own: it is called with every preview result of   *)
(* at most MaxTextLen tokens, and returns.                                 *)
(***************************************************************************)
PreviewTokens == {"+", "~", " ", "0", "2", "to create", "to update"}

PreviewOutputs == UNION { [1..n -> PreviewTokens] : n \in 0..MaxTextLen }

InitVerify ==
  /\ wf = "verifyMigration"
  /\ args = BaseArgs
  /\ pc = "call"
  /\ loc \in [success : BOOLEAN, output : PreviewOutputs, ret : {FALSE}]
  /\ cmds = <<>>
  /\ asked = <<>>
  /\ session = CloudSession
  /\ dirs = {}
  /\ penv = Empty
  /\ exitCode = Running
  /\ failures = 0

VerifyMigration_Call ==
  /\ pc = "call"
  /\ LET r == VerifyMigration(session, penv, args.stack, args.organization,
                              loc.success, loc.output)
     IN  /\ cmds' = r.entries
         /\ loc' = [loc EXCEPT !.ret = r.ret]
  /\ pc' = "returned"
  /\ UNCHANGED <<wf, args, asked, session, dirs, penv, exitCode, failures>>

NextVerify == VerifyMigration_Call

SpecVerify == InitVerify /\ [][NextVerify]_vars


(***************************************************************************)
(* Reading the command log.                                                *)
(***************************************************************************)
IsCmd(e, words) ==
  /\ Len(e.cmd) >= Len(words)
  /\ \A n \in 1..Len(words) : e.cmd[n] = S(words[n])

IsStackRm(e) == IsCmd(e, <<"pulumi", "stack", "rm">>)

IsExport(e) == IsCmd(e, <<"pulumi", "stack", "export">>)

IsImport(e) == IsCmd(e, <<"pulumi", "stack", "import">>)

IsStackInit(e) == IsCmd(e, <<"pulumi", "stack", "init">>)

IsPreview(e) == IsCmd(e, <<"pulumi", "preview">>)

IsLogin(e) == IsCmd(e, <<"pulumi", "login">>)

IsChangeSecrets(e) == IsCmd(e, <<"pulumi", "stack", "change-secrets-provider">>)

\* the positions of the log that hold a stack rm, an export, ...
RmAt == {i \in 1..Len(cmds) : IsStackRm(cmds[i])}

ExportOkAt == {i \in 1..Len(cmds) : IsExport(cmds[i]) /\ cmds[i].ok}

ImportOkAt == {i \in 1..Len(cmds) : IsImport(cmds[i]) /\ cmds[i].ok}

StackInitOkAt == {i \in 1..Len(cmds) : IsStackInit(cmds[i]) /\ cmds[i].ok}

\* Logger.confirm was called with the question and returned true
Confirmed(question) == \E k \in 1..Len(asked) : asked[k].q = question /\ asked[k].ret

Terminated == pc \in {"done", "exited"}

Migrating == wf \in {"cloudToS3", "s3ToCloud"}

\* the commands this step adds to the log
NewCmds == SubSeq(cmds', Len(cmds) + 1, Len(cmds'))

IssuesRm == \E i \in 1..Len(NewCmds) : IsStackRm(NewCmds[i])

(***************************************************************************)
(* C1: in both migration workflows the source stack's removal (pulumi      *)
(* stack rm) is issued only in a run in which the export, the creation of  *)
(* the destination stack and the import have already succeeded, and only   *)
(* after verification succeeded, was skipped with --skip-verify, or its    *)
(* continuation confirm returned true.                                     *)
(***************************************************************************)
C1_RemovalOnlyAfterMigration ==
  [][ (Migrating /\ IssuesRm) =>
        /\ ExportOkAt # {}
        /\ StackInitOkAt # {}
        /\ ImportOkAt # {}
        /\ (args.skipVerify \/ "verify" \in loc.ok \/ Confirmed("continue-migration")) ]_vars

\* a removal issued after a failed verification that the user let pass
C1_Witness ==
  /\ RmAt # {}
  /\ "verify" \in loc.bad
  /\ Confirmed("continue-migration")
  /\ ~args.yes

(***************************************************************************)
(* C2: for every run of a migration workflow that reaches exportStackState,*)
(* whichever later step fails or is declined, the staging directory that   *)
(* the export created does not exist when the workflow terminates (by      *)
(* return or by exit 1).                                                   *)
(***************************************************************************)
ExportReached == \E i \in 1..Len(cmds) : IsExport(cmds[i])

C2_StagingDirRemovedAtTermination ==
  (Migrating /\ ExportReached /\ Terminated) => MigrateTempDir \notin dirs

(***************************************************************************)
(* C3: whenever deleteSourceStack has returned, with true or with false,   *)
(* the ambient session is logged into the destination backend (the bucket  *)
(* URL for cloudToS3, Pulumi Cloud for s3ToCloud), not the source.         *)
(***************************************************************************)
DeleteReturned == "delete" \in (loc.ok \cup loc.bad)

Destination ==
  IF wf = "cloudToS3" THEN S3Session(S3Url(loc.bucket, args.region)) ELSE CloudSession

C3_SessionOnDestinationAfterDelete ==
  (Migrating /\ DeleteReturned) => session = Destination

(***************************************************************************)
(* C4: when the export, the creation of the destination stack or the       *)
(* import fails, the migration workflow halts: the failed command is the   *)
(* last one issued, the source stack is never removed, and the process     *)
(* exits with status 1.                                                    *)
(***************************************************************************)
ExportFailed == \E i \in 1..Len(cmds) : IsExport(cmds[i]) /\ ~cmds[i].ok

ImportFailed == \E i \in 1..Len(cmds) : IsImport(cmds[i]) /\ ~cmds[i].ok

\* every stack init of the run failed: createStackInS3 and
\* createStackInPulumiCloud returned false
CreationFailed == (\E i \in 1..Len(cmds) : IsStackInit(cmds[i])) /\ StackInitOkAt = {}

LastCmd == cmds[Len(cmds)]

C4_FatalStepHalts ==
  (Migrating /\ (ExportFailed \/ CreationFailed \/ ImportFailed)) =>
     /\ pc = "exited" /\ exitCode = 1
     /\ RmAt = {}
     /\ ~LastCmd.ok
     /\ IsExport(LastCmd) \/ IsStackInit(LastCmd) \/ IsImport(LastCmd)

\* the creation of the destination stack failed, after a successful export
C4_Witness ==
  /\ Migrating /\ CreationFailed
  /\ ExportOkAt # {}
  /\ pc = "exited"

(***************************************************************************)
(* C5: in a migration run in which the import succeeded, verification      *)
(* failed, --yes is not set and the user answers no, the workflow cleans   *)
(* up so that the staging directory is absent, exits with status 1, never  *)
(* removes the source stack, and issues no command after the preview (no   *)
(* rollback of the imported stack).                                        *)
(***************************************************************************)
DeclinedAfterVerify ==
  /\ ImportOkAt # {}
  /\ "verify" \in loc.bad
  /\ ~args.yes
  /\ \E k \in 1..Len(asked) :
       /\ asked[k].q = "continue-migration"
       /\ asked[k].prompted
       /\ asked[k].resp = Typed(<<"n", "o">>)

C5_DeclineCleansUpAndHalts ==
  (Migrating /\ DeclinedAfterVerify) =>
     /\ MigrateTempDir \notin dirs
     /\ pc = "exited" /\ exitCode = 1
     /\ RmAt = {}
     /\ IsPreview(LastCmd)

(***************************************************************************)
(* C7: the source stack is removed only if --delete-source was given and   *)
(* either --yes was set or the user answered yes to the deletion prompt;   *)
(* without --yes, an empty answer, another answer or a non-interactive     *)
(* session never leads to the removal.                                     *)
(***************************************************************************)
AnsweredYes(question) ==
  \E k \in 1..Len(asked) :
    /\ asked[k].q = question
    /\ ~asked[k].resp.null
    /\ MatchesYes(asked[k].resp.text)

C7_RemovalNeedsConsent ==
  (Migrating /\ RmAt # {}) =>
     /\ args.deleteSource
     /\ args.yes \/ (args.interactive /\ AnsweredYes("delete-source"))

\* the removal after the user typed YES at the deletion prompt
C7_Witness ==
  /\ RmAt # {}
  /\ ~args.yes
  /\ \E k \in 1..Len(asked) :
       asked[k].q = "delete-source" /\ asked[k].resp = Typed(<<"Y", "E", "S">>)

(***************************************************************************)
(* C6: verifyMigration returns false when the preview exits non-zero or    *)
(* its summary reports a nonzero create, update or delete count (such as   *)
(* "+ 2 to create"), and returns true when the preview exits zero and its  *)
(* summary reports zero for every count.                                   *)
(***************************************************************************)
ChangeKinds ==
  { <<"+", "to create">>, <<"~", "to update">>, <<"-", "to delete">> }

\* the counts the summary reports for a kind of change: the digits between
\* the marker and the phrase
CountsOf(text, kind) ==
  { SubSeq(text, SkipSpaces(text, i + 1), SkipDigits(text, SkipSpaces(text, i + 1)) - 1) :
      i \in { i \in 1..Len(text) :
                /\ text[i] = kind[1]
                /\ LET j == SkipSpaces(text, i + 1)
                       k == SkipDigits(text, j)
                       m == SkipSpaces(text, k)
                   IN  j > i + 1 /\ k > j /\ m > k /\ m <= Len(text) /\ text[m] = kind[2] } }

IsZero(digits) == \A d \in 1..Len(digits) : digits[d] = "0"

ReportsNonzeroCount(text) ==
  \E kind \in ChangeKinds : \E c \in CountsOf(text, kind) : ~IsZero(c)

ReportsZeroForEveryCount(text) ==
  \A kind \in ChangeKinds : \A c \in CountsOf(text, kind) : IsZero(c)

C6_VerifyFollowsSummary ==
  (wf = "verifyMigration" /\ pc = "returned") =>
     /\ (~loc.success \/ ReportsNonzeroCount(loc.output)) => ~loc.ret
     /\ (loc.success /\ ReportsZeroForEveryCount(loc.output)) => loc.ret

(***************************************************************************)
(* C8: a workflow (cloudToS3, s3ToCloud, init) ends with exit status 0 and *)
(* its success report only when every step it ran succeeded; whenever a    *)
(* precondition check failed fatally, a fatal step failed or the user      *)
(* declined a continuation prompt it ends with exit status 1; no run in    *)
(* which a step failed ends reporting success.                             *)
(*                                                                         *)
(* As stated it does not hold: the advisory steps (the provider change,    *)
(* the policy reconciliation, the key creation, an accepted verification   *)
(* failure, the removal of the source stack) may fail in a run that ends   *)
(* with status 0.  What holds: status 0 only when no fatal precondition    *)
(* failed, every fatal step succeeded and no continuation was declined,    *)
(* and status 1 in each of those cases.                                    *)
(***************************************************************************)
\* the steps whose failure ends the workflow
FatalSteps ==
  CASE wf = "cloudToS3" -> {"bucket", "export", "login", "create", "import"}
    [] wf = "s3ToCloud" -> {"sourceLogin", "export", "login", "create", "import"}
    [] OTHER -> {"bucket", "login", "project", "create"}

DeclinedContinuation ==
  \E k \in 1..Len(asked) :
    asked[k].q \in {"continue-anyway", "continue-migration"} /\ ~asked[k].ret

PreconditionFailed ==
  \/ wf = "cloudToS3" /\ ~Truthy(args.stack)
  \/ wf = "s3ToCloud" /\ (~Truthy(args.stack) \/ ~Truthy(args.organization))
  \/ \E i \in 1..Len(cmds) : cmds[i].cmd = PulumiVersionCmd /\ ~cmds[i].ok
  \/ /\ wf \in {"cloudToS3", "init"} /\ ~args.createBucket
     /\ \E i \in 1..Len(cmds) : IsCmd(cmds[i], <<"aws", "s3api", "head-bucket">>) /\ ~cmds[i].ok
  \/ wf = "s3ToCloud" /\ Truthy(args.backend) /\ ParseThrows(args.backend)

HappyArgs == [BaseArgs EXCEPT !.deleteSource = FALSE]

\* every command succeeds and prints what it prints when it does; the two
\* probes find nothing
HappyRun ==
  /\ wf = "cloudToS3" /\ args = HappyArgs
  /\ \A i \in 1..Len(cmds) :
       /\ cmds[i].ok = ~cmds[i].probe
       /\ IsPreview(cmds[i]) => cmds[i].out = UnchangedText
       /\ IsCmd(cmds[i], <<"aws", "kms", "create-key">>) => cmds[i].out = KeyDescription

HappyHeads ==
  << <<"pulumi", "version">>,
     <<"aws", "sts", "get-caller-identity">>,
     <<"aws", "s3api", "head-bucket">>,
     <<"aws", "s3api", "create-bucket">>,
     <<"aws", "s3api", "put-bucket-versioning">>,
     <<"aws", "s3api", "put-bucket-encryption">>,
     <<"aws", "s3api", "put-bucket-lifecycle-configuration">>,
     <<"aws", "kms", "describe-key">>,
     <<"aws", "kms", "create-key">>,
     <<"aws", "kms", "create-alias">>,
     <<"pulumi", "stack", "change-secrets-provider">>,
     <<"pulumi", "stack", "export">>,
     <<"pulumi", "logout">>,
     <<"pulumi", "login">>,
     <<"pulumi", "stack", "init">>,
     <<"pulumi", "stack", "import">>,
     <<"pulumi", "preview">> >>

HappyProviderUrl == <<"awskms://", "alias/", "pulumi-secrets", "?region=", "eu-west-3">>

HappyBackendUrl == <<"s3://", "proj-state", "?region=", "eu-west-3">>

C9_HappyPathOfCloudToS3 ==
  HappyRun =>
     /\ Len(cmds) <= Len(HappyHeads)
     /\ \A i \in 1..Len(cmds) :
          /\ IsCmd(cmds[i], HappyHeads[i])
          /\ \A n \in 1..Len(cmds[i].cmd) : cmds[i].cmd[n] = S("--bucket") =>
               cmds[i].cmd[n + 1] = S("proj-state")
          /\ IsCmd(cmds[i], <<"aws", "kms", "create-alias">>) =>
               cmds[i].cmd[5] = <<"alias/", "pulumi-secrets">>
          /\ IsChangeSecrets(cmds[i]) =>
               cmds[i].cmd = Lit(<<"pulumi", "stack", "change-secrets-provider">>)
                               \o <<HappyProviderUrl, S("--stack"), <<"proj", "/", "dev">> >>
          /\ IsLogin(cmds[i]) => cmds[i].cmd = Lit(<<"pulumi", "login">>) \o <<HappyBackendUrl>>
     /\ pc # "exited"
     /\ pc = "done" =>
          /\ Len(cmds) = Len(HappyHeads)
          /\ {"bucket", "kms", "changeSecrets", "export", "login", "create", "import", "verify"}
               \subseteq loc.ok
          /\ loc.bad = {}
          /\ MigrateTempDir \notin dirs
          /\ exitCode = 0

\* the happy run has returned
C9_Witness == HappyRun /\ pc = "done" /\ MigrateTempDir \notin dirs /\ Len(cmds) = Len(HappyHeads)

(***************************************************************************)
(* C10: on every run of cloudToS3 the change of the secrets provider and   *)
(* the export are issued while the session is still on the source backend, *)
(* before the first login to object storage; the creation of the           *)
(* destination stack, the import and the verification are issued after     *)
(* that login, in the session it opened, in that order, each only after    *)
(* the previous one succeeded.                                             *)
(***************************************************************************)
RECURSIVE FirstLoginFrom(_)
FirstLoginFrom(i) ==
  IF i > Len(cmds) \/ IsLogin(cmds[i]) THEN i ELSE FirstLoginFrom(i + 1)

\* the position of the first login, or past the end of the log
FirstLogin == FirstLoginFrom(1)

C10_OrderOfCloudToS3 ==
  wf = "cloudToS3" =>
    LET first == FirstLogin
        opened == S3Session(S3Url(loc.bucket, args.region))
    IN  \A i \in 1..Len(cmds) :
          LET e == cmds[i]
          IN  /\ (IsChangeSecrets(e) \/ IsExport(e)) =>
                   i < first /\ e.at = CloudSession
              /\ (i = first) =>
                   /\ \E j \in 1..(i - 1) : IsExport(cmds[j]) /\ cmds[j].ok
                   /\ e.cmd = LoginCmd(S3Url(loc.bucket, args.region))
              /\ IsStackInit(e) =>
                   /\ i > first /\ cmds[first].ok
                   /\ e.at = opened
              /\ IsImport(e) =>
                   /\ \E j \in 1..(i - 1) : IsStackInit(cmds[j]) /\ cmds[j].ok
                   /\ \A j \in (i + 1)..Len(cmds) : ~IsStackInit(cmds[j])
                   /\ e.at = opened
              /\ IsPreview(e) =>
                   /\ \E j \in 1..(i - 1) : IsImport(cmds[j]) /\ cmds[j].ok
                   /\ \A j \in (i + 1)..Len(cmds) : ~IsImport(cmds[j])
                   /\ e.at = opened

\* a run that went through every one of these steps, the creation of the
\* stack at its second attempt
C10_Witness ==
  /\ wf = "cloudToS3"
  /\ \E i \in 1..Len(cmds) : IsChangeSecrets(cmds[i])
  /\ \E i \in 1..Len(cmds) : IsStackInit(cmds[i]) /\ ~cmds[i].ok
  /\ \E i \in 1..Len(cmds) : IsPreview(cmds[i])

(***************************************************************************)
(* C11: on every run of s3ToCloud the steps are issued in the order: login *)
(* to object storage, export, login to the hosted service, creation of the *)
(* destination stack, import, reset of the secrets provider to default,    *)
(* verification (unless skipped), optional removal of the source, cleanup; *)
(* the export is never issued unless the object-storage login succeeded,   *)
(* and the creation and the import are never issued unless the             *)
(* hosted-service login succeeded.                                         *)
(***************************************************************************)
IsCloudLogin(e) == e.cmd = LoginCmd(Empty)

IsSourceLogin(e) == IsLogin(e) /\ e.cmd # LoginCmd(Empty)

IsWhoami(e) == e.cmd = WhoamiCmd

IsResetSecrets(e) == IsCmd(e, <<"pulumi", "stack", "change-secrets-provider", "default">>)

\* a command of the kind was issued before position i
Before(i, Is(_)) == \E j \in 1..(i - 1) : Is(cmds[j])

\* a command of the kind was issued before position i, and succeeded
OkBefore(i, Is(_)) == \E j \in 1..(i - 1) : Is(cmds[j]) /\ cmds[j].ok

AtMostOnce(Is(_)) == \A i, j \in 1..Len(cmds) : (Is(cmds[i]) /\ Is(cmds[j])) => i = j

C11_OrderOfS3ToCloud ==
  wf = "s3ToCloud" =>
    /\ \A i \in 1..Len(cmds) :
         LET e == cmds[i]
         IN  /\ IsExport(e) =>
                  /\ OkBefore(i, IsSourceLogin)
                  /\ ~Before(i, IsCloudLogin)
                  /\ e.at = S3Session(loc.backend)
             /\ (IsCloudLogin(e) /\ ~Before(i, IsCloudLogin)) => OkBefore(i, IsExport)
             /\ IsStackInit(e) =>
                  /\ OkBefore(i, IsCloudLogin) /\ OkBefore(i, IsWhoami)
                  /\ e.at = CloudSession
             /\ IsImport(e) => OkBefore(i, IsStackInit) /\ e.at = CloudSession
             /\ IsResetSecrets(e) => OkBefore(i, IsImport)
             /\ IsPreview(e) => ~args.skipVerify /\ Before(i, IsResetSecrets)
             /\ IsStackRm(e) =>
                  /\ Before(i, IsResetSecrets)
                  /\ args.skipVerify \/ Before(i, IsPreview)
                  /\ \A j \in (i + 1)..Len(cmds) : IsLogin(cmds[j]) \/ cmds[j].cmd = LogoutCmd
    /\ AtMostOnce(IsExport) /\ AtMostOnce(IsStackInit) /\ AtMostOnce(IsImport)
    /\ AtMostOnce(IsResetSecrets) /\ AtMostOnce(IsPreview) /\ AtMostOnce(IsStackRm)
    /\ pc \in {"cleanup", "done"} =>
         /\ ImportOkAt # {}
         /\ Before(Len(cmds) + 1, IsResetSecrets)
         /\ args.skipVerify \/ Before(Len(cmds) + 1, IsPreview)
         /\ (args.deleteSource /\ (args.yes \/ Confirmed("delete-source"))) => DeleteReturned

\* a run of s3ToCloud that went through every step, the removal included
C11_Witness ==
  /\ wf = "s3ToCloud" /\ pc = "done"
  /\ RmAt # {}
  /\ \E i \in 1..Len(cmds) : IsPreview(cmds[i])

(***************************************************************************)
(* C12: every run of either migration workflow is a path of the state      *)
(* machine Idle -> Exported -> DestinationReady -> Imported -> Verified -> *)
(* (SourceDeleted) -> Complete with Failed absorbing: each transition is   *)
(* taken only on success of its step, SourceDeleted is entered only from   *)
(* Verified, Complete is reached only through Verified, and once a step    *)
(* has failed fatally no further transition occurs.                        *)
(*                                                                         *)
(* With Verified read as "verifyMigration returned true" it does not hold: *)
(* a run with --skip-verify, or one whose failed verification the caller   *)
(* accepted at the prompt, goes from Imported on to SourceDeleted and      *)
(* Complete.  What holds: the same machine with Verified entered when the  *)
(* verification succeeded, was skipped with --skip-verify, or failed and   *)
(* the continuation was confirmed.                                         *)
(***************************************************************************)
\* the state of the machine that a state of the run stands for, given
\* whether the run counts as verified
MigrationState(verified) ==
  IF pc = "exited" THEN "Failed"
  ELSE IF pc = "done" THEN "Complete"
  ELSE IF "delete" \in loc.ok THEN "SourceDeleted"
  ELSE IF verified THEN "Verified"
  ELSE IF "import" \in loc.ok THEN "Imported"
  ELSE IF "create" \in loc.ok THEN "DestinationReady"
  ELSE IF "export" \in loc.ok THEN "Exported"
  ELSE "Idle"

MachineTransitions ==
  { <<"Idle", "Exported">>, <<"Exported", "DestinationReady">>,
    <<"DestinationReady", "Imported">>, <<"Imported", "Verified">>,
    <<"Verified", "SourceDeleted">>, <<"Verified", "Complete">>,
    <<"SourceDeleted", "Complete">> }
  \cup
  { <<s, "Failed">> :
      s \in {"Idle", "Exported", "DestinationReady", "Imported", "Verified", "SourceDeleted"} }

\* the preview ran, exited with status 0 and reported no change
PreviewPassed ==
  \E i \in 1..Len(cmds) : IsPreview(cmds[i]) /\ cmds[i].ok /\ ~HasChanges(cmds[i].out)

\* what the log holds when the machine is in state st: the steps that lead
\* to st have succeeded
StepsSucceeded(st, verified) ==
  /\ st \notin {"Idle", "Failed"} => ExportOkAt # {}
  /\ st \notin {"Idle", "Failed", "Exported"} => StackInitOkAt # {}
  /\ st \notin {"Idle", "Failed", "Exported", "DestinationReady"} => ImportOkAt # {}
  /\ st \in {"Verified", "SourceDeleted", "Complete"} => verified
  /\ st = "SourceDeleted" => \E i \in RmAt : cmds[i].ok

StrictState == MigrationState("verify" \in loc.ok)

VerifySettled == "verify" \in (loc.ok \cup loc.skipped) \/ "proceed" \in loc.ok

SettledState == MigrationState(VerifySettled)

C12_RunsFollowTheStateMachine ==
  [][ Migrating =>
        /\ ~Terminated
        /\ StrictState' = StrictState \/ <<StrictState, StrictState'>> \in MachineTransitions
        /\ StepsSucceeded(StrictState, PreviewPassed)' ]_vars

C12_RunsFollowTheMachineWithSettledVerification ==
  [][ Migrating =>
        /\ ~Terminated
        /\ SettledState' = SettledState \/ <<SettledState, SettledState'>> \in MachineTransitions
        /\ StepsSucceeded(SettledState,
                          PreviewPassed \/ args.skipVerify \/ Confirmed("continue-migration"))' ]_vars

\* a run that removed the source and completed without a verification
C12_Witness ==
  /\ Migrating /\ pc = "done"
  /\ "delete" \in loc.ok
  /\ "verify" \in loc.skipped

(***************************************************************************)
(* C13: when a migration workflow exits on a fatal step failure, the       *)
(* ambient session is left on the backend that holds the authoritative     *)
(* copy of the stack (the source backend); the workflow never terminates   *)
(* with the session logged out, or logged into a destination backend that  *)
(* holds no imported state.                                                *)
(***************************************************************************)
SourceSession == IF wf = "cloudToS3" THEN CloudSession ELSE S3Session(loc.backend)

ExitedOnFatalStep == pc = "exited" /\ FatalSteps \cap loc.bad # {}

C13_FatalExitLeavesSessionOnSource ==
  (Migrating /\ ExitedOnFatalStep) =>
     /\ "sourceLogin" \notin loc.bad => session = SourceSession
     /\ session # NoSession
     /\ ~(session = Destination /\ ImportOkAt = {})

(***************************************************************************)
(* The organization-aware helpers on their own: createStackInPulumiCloud,  *)
(* changeSecretsProviderToDefault and verifyMigration are each called with *)
(* the text of a stack reference {organization?, name} and an optional     *)
(* explicit organization, and return.                                      *)
(***************************************************************************)
\* the pieces a stack name is made of, and the names of at most MaxNameLen
\* pieces
NamePieces == {"stack", "A"}

StackNames == UNION { [1..n -> NamePieces] : n \in 1..MaxNameLen }

Organizations == {S("org1"), S("org2")}

\* the text of a stack reference: `${organization}/${name}`, or the name
RefText(ref) ==
  IF Truthy(ref.organization) THEN ref.organization \o <<"/">> \o ref.name ELSE ref.name

InitResolve ==
  /\ wf = "resolve"
  /\ \E ref \in [organization : Organizations \cup {Empty}, name : StackNames],
        explicit \in Organizations \cup {Empty} :
       /\ loc = [ref |-> ref, success |-> TRUE, output |-> UnchangedText, ret |-> FALSE]
       /\ args = [BaseArgs EXCEPT !.stack = RefText(ref), !.organization = explicit]
  /\ pc = "call"
  /\ cmds = <<>>
  /\ asked = <<>>
  /\ session = CloudSession
  /\ dirs = {}
  /\ penv = Empty
  /\ exitCode = Running
  /\ failures = 0

CreateStackInPulumiCloud_Call ==
  /\ pc = "call"
  /\ \E ok \in BOOLEAN :
       LET r == CreateStackInPulumiCloud(session, penv, args.stack, args.organization, ok)
       IN  /\ cmds' = r.entries
           /\ loc' = [loc EXCEPT !.ret = r.ret]
  /\ pc' = "returned"
  /\ UNCHANGED <<wf, args, asked, session, dirs, penv, exitCode, failures>>

ChangeSecretsProviderToDefault_Call ==
  /\ pc = "call"
  /\ \E ok \in BOOLEAN :
       LET r == ChangeSecretsProviderToDefault(session, penv, args.stack, args.organization, ok)
       IN  /\ cmds' = r.entries
           /\ loc' = [loc EXCEPT !.ret = r.ret]
  /\ pc' = "returned"
  /\ UNCHANGED <<wf, args, asked, session, dirs, penv, exitCode, failures>>

NextResolve ==
  \/ CreateStackInPulumiCloud_Call
  \/ ChangeSecretsProviderToDefault_Call
  \/ VerifyMigration_Call

SpecResolve == InitResolve /\ [][NextResolve]_vars

(***************************************************************************)
(* C14: organization resolution.  For every stack reference and optional   *)
(* explicit organization, the address that createStackInPulumiCloud,       *)
(* changeSecretsProviderToDefault and verifyMigration put into their       *)
(* command is <explicit>/<name> when an explicit organization is given     *)
(* (it overrides an embedded one), <embedded>/<name> when only the         *)
(* reference embeds one, and the bare name when neither is present.        *)
(***************************************************************************)
\* the stack a command addresses: the operand of stack init, the value of
\* --stack otherwise
StackOperand(e) ==
  IF IsStackInit(e) THEN e.cmd[4]
  ELSE e.cmd[(CHOOSE n \in 1..Len(e.cmd) : e.cmd[n] = S("--stack")) + 1]

\* the tie-break rule
Qualified(explicit, embedded, name) ==
  IF Truthy(explicit) THEN explicit \o <<"/">> \o name
  ELSE IF Truthy(embedded) THEN embedded \o <<"/">> \o name
  ELSE name

C14_OrganizationResolution ==
  (wf = "resolve" /\ pc = "returned") =>
     /\ Len(cmds) = 1
     /\ StackOperand(cmds[1]) = Qualified(args.organization, loc.ref.organization, loc.ref.name)

\* the reset was addressed with the explicit organization in place of the
\* embedded one
C14_Witness ==
  /\ wf = "resolve" /\ pc = "returned"
  /\ IsResetSecrets(cmds[1])
  /\ loc.ref = [organization |-> S("org1"), name |-> <<"stack", "A">>]
  /\ StackOperand(cmds[1]) = <<"org2", "/", "stack", "A">>

(***************************************************************************)
(* C15: within one migration run, every operation on the destination stack *)
(* (destination-stack creation, importStackState,                          *)
(* changeSecretsProviderToDefault, verifyMigration) addresses the same     *)
(* organization-qualified stack, namely the one the organization tie-break *)
(* rule gives for the run's stack reference and organization argument.     *)
(***************************************************************************)
\* stack init passes the organization in the operand or with --organization
HasOrganizationFlag(e) == \E n \in 1..Len(e.cmd) : e.cmd[n] = S("--organization")

AddressedStack(e) ==
  IF IsStackInit(e) /\ HasOrganizationFlag(e)
  THEN e.cmd[(CHOOSE n \in 1..Len(e.cmd) : e.cmd[n] = S("--organization")) + 1]
         \o <<"/">> \o StackOperand(e)
  ELSE StackOperand(e)

\* the commands that operate on the destination stack; the unqualified
\* retry of createStackInS3 is left aside
OnDestinationStack(i) ==
  \/ IsStackInit(cmds[i]) /\ ~Before(i, IsStackInit)
  \/ IsImport(cmds[i])
  \/ IsPreview(cmds[i])
  \/ wf = "s3ToCloud" /\ IsResetSecrets(cmds[i])

\* the run's stack reference is <name> or <organization>/<name>
RunAddress ==
  Qualified(args.organization,
            IF Len(args.stack) = 3 THEN <<args.stack[1]>> ELSE Empty,
            <<args.stack[Len(args.stack)]>>)

C15_OneDestinationAddress ==
  Migrating =>
    \A i \in 1..Len(cmds) : OnDestinationStack(i) => AddressedStack(cmds[i]) = RunAddress

(***************************************************************************)
(* parseS3BackendUrl in full (src/src/pulumi/backend.ts), and the round    *)
(* trip through loginToS3BackendWithBucket.  In the text of a URL the      *)
(* piece "?region=" stands for the three pieces "?", "region", "=", and    *)
(* "%26" is the percent-escape of "&".                                     *)
(***************************************************************************)
RECURSIVE Explode(_)
\* the text of the URL, piece by piece
Explode(str) ==
  IF str = <<>> THEN <<>>
  ELSE (IF Head(str) = "?region=" THEN <<"?", "region", "=">> ELSE <<Head(str)>>)
         \o Explode(Tail(str))

RECURSIVE SplitOnFrom(_, _, _, _)
SplitOnFrom(str, sep, i, cur) ==
  IF i > Len(str) THEN <<cur>>
  ELSE IF str[i] = sep THEN <<cur>> \o SplitOnFrom(str, sep, i + 1, Empty)
  ELSE SplitOnFrom(str, sep, i + 1, Append(cur, str[i]))

\* str.split(sep)
SplitOn(str, sep) == SplitOnFrom(str, sep, 1, Empty)

\* the percent-decoding URLSearchParams applies to names and values
Decode(str) == [i \in 1..Len(str) |-> IF str[i] = "%26" THEN "&" ELSE str[i]]

RECURSIVE RegionParam(_)
\* new URLSearchParams(queryString).get("region"), given the pairs that "&"
\* separates: the value of the first pair named region, or null
RegionParam(pairs) ==
  IF pairs = <<>> THEN Null
  ELSE LET kv == SplitOn(Head(pairs), "=")
           name == Decode(kv[1])
           value == Decode(SubSeq(Head(pairs), Len(kv[1]) + 2, Len(Head(pairs))))
       IN  IF name = S("region") THEN Val(value) ELSE RegionParam(Tail(pairs))

Thrown == [throws |-> TRUE, bucket |-> Empty, region |-> Empty]

ParseS3BackendUrl(backendUrl, fallbackRegion) ==
  LET url == Explode(backendUrl)
      parts == SplitOn(Tail(url), "?")
      bucket == parts[1]
      found == RegionParam(SplitOn(At0(parts, 1), "&"))
  IN  IF ~(Len(url) > 0 /\ url[1] = "s3://") THEN Thrown
      ELSE IF ~Truthy(bucket) THEN Thrown
      ELSE [throws |-> FALSE, bucket |-> bucket,
            region |-> IF ~found.null /\ Truthy(found.val) THEN found.val ELSE fallbackRegion]

\* the URLs parseS3BackendUrl is called with: every text of at most
\* MaxUrlLen pieces
UrlPieces == {"s3://", "bkt", "eu", "?region=", "?", "&", "%26"}

Urls == UNION { [1..n -> UrlPieces] : n \in 0..MaxUrlLen }

InitParse ==
  /\ wf = "parse"
  /\ args = BaseArgs
  /\ pc = "call"
  /\ loc \in [url : Urls, fallback : {Region, S("us-east-1")}, first : {Thrown}, second : {Thrown}]
  /\ cmds = <<>>
  /\ asked = <<>>
  /\ session = CloudSession
  /\ dirs = {}
  /\ penv = Empty
  /\ exitCode = Running
  /\ failures = 0

\* the URL is parsed; later the URL that the login was given is parsed
ParseS3BackendUrl_Call ==
  /\ pc \in {"call", "formatted"}
  /\ IF pc = "call"
     THEN LET r == ParseS3BackendUrl(loc.url, loc.fallback)
          IN  /\ loc' = [loc EXCEPT !.first = r]
              /\ pc' = IF r.throws THEN "thrown" ELSE "parsed"
     ELSE LET r == ParseS3BackendUrl(cmds[2].cmd[3], loc.fallback)
          IN  /\ loc' = [loc EXCEPT !.second = r]
              /\ pc' = IF r.throws THEN "rethrown" ELSE "reparsed"
  /\ UNCHANGED <<wf, args, cmds, asked, session, dirs, penv, exitCode, failures>>

\* the parsed bucket and region are formatted into the login's URL
LoginToS3BackendWithBucket_Call ==
  /\ pc = "parsed"
  /\ \E logoutOk \in BOOLEAN, loginOk \in BOOLEAN :
       LET r == LoginToS3BackendWithBucket(session, penv, loc.first.bucket, loc.first.region,
                                           logoutOk, loginOk)
       IN  /\ cmds' = r.entries
           /\ session' = r.session
  /\ pc' = "formatted"
  /\ UNCHANGED <<wf, args, loc, asked, dirs, penv, exitCode, failures>>

NextParse ==
  \/ ParseS3BackendUrl_Call
  \/ LoginToS3BackendWithBucket_Call

SpecParse == InitParse /\ [][NextParse]_vars

(***************************************************************************)
(* C16: parseS3BackendUrl throws for every string that lacks the scheme    *)
(* prefix or has an empty bucket, and never returns a defaulted bucket;    *)
(* for every valid s3://bucket?region=R it returns bucket and R, and it    *)
(* returns the fallback region when the query has no region; formatting    *)
(* the parsed result as s3://<bucket>?region=<region>                      *)
(* (loginToS3BackendWithBucket) and parsing again yields the same bucket   *)
(* and region.                                                             *)
(***************************************************************************)
LacksScheme(url) == url = <<>> \/ url[1] # "s3://"

HasEmptyBucket(url) == Len(url) < 2 \/ url[2] \in {"?", "?region="}

IsName(str) == str # <<>> /\ \A i \in 1..Len(str) : str[i] \in {"bkt", "eu"}

\* the URL is s3://<bucket>?region=<R> with bucket and R plain names
IsPlainUrl(url, bucket, R) ==
  /\ IsName(bucket) /\ IsName(R)
  /\ url = <<"s3://">> \o bucket \o <<"?region=">> \o R

HasNoRegion(url) == \A i \in 1..Len(url) : url[i] # "?region="

C16_ParseAndRoundTrip ==
  (wf = "parse" /\ pc # "call") =>
     /\ (LacksScheme(loc.url) \/ HasEmptyBucket(loc.url)) => loc.first.throws
     /\ ~loc.first.throws =>
          /\ Truthy(loc.first.bucket)
          /\ loc.first.bucket = SubSeq(loc.url, 2, 1 + Len(loc.first.bucket))
          /\ \A k \in 3..Len(loc.url) :
               IsPlainUrl(loc.url, SubSeq(loc.url, 2, k - 1), SubSeq(loc.url, k + 1, Len(loc.url)))
                 => /\ loc.first.bucket = SubSeq(loc.url, 2, k - 1)
                    /\ loc.first.region = SubSeq(loc.url, k + 1, Len(loc.url))
          /\ HasNoRegion(loc.url) => loc.first.region = loc.fallback
     /\ pc # "rethrown"
     /\ pc = "reparsed" =>
          /\ loc.second.bucket = loc.first.bucket
          /\ loc.second.region = loc.first.region

(***************************************************************************)
(* The container-ensure step of initCommand run twice (init.ts lines       *)
(* 164-183): the tool is started, runs the step, and is started again with *)
(* the same bucket and region.  The command log spans both runs;           *)
(* loc.mark is its length when the second run starts.  From the first     *)
(* head-bucket on, the bucket exists exactly when a head-bucket or a       *)
(* create-bucket has succeeded, and head-bucket reports it.                *)
(***************************************************************************)
IsHeadBucket(e) == IsCmd(e, <<"aws", "s3api", "head-bucket">>)

IsCreateBucket(e) == IsCmd(e, <<"aws", "s3api", "create-bucket">>)

BucketExists == \E i \in 1..Len(cmds) : (IsHeadBucket(cmds[i]) \/ IsCreateBucket(cmds[i])) /\ cmds[i].ok

InitEnsure ==
  /\ wf = "init"
  /\ args \in InitArgs
  /\ pc = "bucket"
  /\ loc = [f \in DOMAIN InitLoc \cup {"run", "mark"} |->
              CASE f = "run" -> 1
                [] f = "mark" -> 0
                [] f = "bucket" -> IF Truthy(args.bucket) THEN args.bucket ELSE SuggestedBucketName
                [] OTHER -> InitLoc[f]]
  /\ cmds = <<>>
  /\ asked = <<>>
  /\ session = NoSession
  /\ dirs = {}
  /\ penv = Empty
  /\ exitCode = Running
  /\ failures = 0

\* the step of initCommand, the probe reporting the bucket as it is
Ensure_Bucket ==
  /\ Init_Bucket
  /\ loc.run = 2 => cmds'[Len(cmds) + 1].ok = BucketExists

\* the process has ended or has left the step; the tool is started again
Ensure_Again ==
  /\ pc \in {"kms", "exited"} /\ loc.run = 1
  /\ loc' = [loc EXCEPT !.run = 2, !.mark = Len(cmds), !.ok = {}, !.bad = {}, !.skipped = {}]
  /\ pc' = "bucket"
  /\ exitCode' = Running
  /\ UNCHANGED <<wf, args, cmds, asked, session, dirs, penv, failures>>

NextEnsure ==
  \/ Ensure_Bucket
  \/ Init_Permissions
  \/ Ensure_Again

SpecEnsure == InitEnsure /\ [][NextEnsure]_vars

(***************************************************************************)
(* C17: running the container-ensure step of the provisioning workflow     *)
(* (checkS3BucketExists, then createS3Bucket if missing, then              *)
(* checkAndFixS3Permissions) twice with the same bucket and region issues  *)
(* the bucket-creation command at most once: the second run observes that  *)
(* the bucket exists and performs only the policy reconciliation;          *)
(* reconciliation runs on both the just-created and the already-existing   *)
(* branch.                                                                 *)
(***************************************************************************)
\* the positions of the log that belong to the first and to the second run
FirstRun == IF loc.run = 1 THEN 1..Len(cmds) ELSE 1..loc.mark

SecondRun == IF loc.run = 1 THEN {} ELSE (loc.mark + 1)..Len(cmds)

\* the first run went through the step: the bucket is there
FirstRunEnsured == \E i \in FirstRun : cmds[i].cmd = GetIdentityCmd

ThisRun == IF loc.run = 1 THEN FirstRun ELSE SecondRun

PrerequisiteFailed ==
  \E i \in 1..Len(cmds) : cmds[i].cmd \in {PulumiVersionCmd, AwsIdentityCheckCmd} /\ ~cmds[i].ok

IsMutating(e) ==
  \/ IsCreateBucket(e)
  \/ IsCmd(e, <<"aws", "s3api", "put-bucket-versioning">>)
  \/ IsCmd(e, <<"aws", "s3api", "put-bucket-encryption">>)
  \/ IsCmd(e, <<"aws", "s3api", "put-bucket-lifecycle-configuration">>)
  \/ IsCmd(e, <<"aws", "s3api", "put-bucket-policy">>)
  \/ IsCmd(e, <<"aws", "kms", "create-key">>)
  \/ IsCmd(e, <<"aws", "kms", "create-alias">>)
  \/ IsLogin(e) \/ e.cmd = LogoutCmd
  \/ IsChangeSecrets(e) \/ IsExport(e) \/ IsStackInit(e) \/ IsImport(e) \/ IsStackRm(e)
  \/ IsCmd(e, <<"pulumi", "new">>)

C18_PrerequisiteFailureExitsFirst ==
  (wf \in {"cloudToS3", "s3ToCloud", "init"} /\ PrerequisiteFailed) =>
     /\ pc = "exited" /\ exitCode = 1
     /\ \A i \in 1..Len(cmds) : ~IsMutating(cmds[i])

(***************************************************************************)
(* C19: in cloudToS3 with secrets provider awskms, when the KMS alias does *)
(* not exist and either --create-kms is disabled or the key creation       *)
(* fails, the workflow falls back to the passphrase or default provider:   *)
(* the provider change (changeSecretProvider) and the creation of the      *)
(* destination stack (createStackInS3) that follow are not issued in       *)
(* awskms mode.                                                            *)
(***************************************************************************)
\* no usable key: the alias is missing and was not created
WithoutKmsKey == "kms" \in (loc.bad \cup loc.skipped)

\* the command names a key of AWS KMS as the secrets provider
NamesKmsProvider(e) ==
  \E n \in 1..Len(e.cmd) : Len(e.cmd[n]) > 0 /\ e.cmd[n][1] = "awskms://"

C19_CloudToS3FallsBackFromKms ==
  (wf = "cloudToS3" /\ args.secretsProvider = "awskms" /\ WithoutKmsKey) =>
     \A i \in 1..Len(cmds) :
       (IsChangeSecrets(cmds[i]) \/ IsStackInit(cmds[i])) => ~NamesKmsProvider(cmds[i])

(***************************************************************************)
(* C20: in initCommand with secrets provider awskms, when the KMS alias    *)
(* does not exist and the key creation fails or --create-kms is disabled,  *)
(* the workflow does not abort: it continues to the object-storage login   *)
(* and creates the initial stack with the default secrets provider (no     *)
(* awskms provider URL is passed to stack init).                           *)
(***************************************************************************)
C20_InitDowngradesToDefault ==
  (wf = "init" /\ "run" \notin DOMAIN loc /\ args.secretsProvider = "awskms" /\ WithoutKmsKey) =>
     /\ loc.provider = "default"
     /\ pc = "exited" => {"login", "project", "create"} \cap loc.bad # {}
     /\ pc \notin {"exited", "s3login"} => \E i \in 1..Len(cmds) : IsLogin(cmds[i]) /\ cmds[i].ok
     /\ \A i \in 1..Len(cmds) :
          IsStackInit(cmds[i]) =>
            /\ ~NamesKmsProvider(cmds[i])
            /\ cmds[i].cmd = Lit(<<"pulumi", "stack", "init">>) \o <<args.stack>>
            /\ OkBefore(i, IsLogin)
     /\ pc = "done" => StackInitOkAt # {}

\* the key could not be created, and the stack was created all the same
C20_Witness ==
  /\ wf = "init" /\ args.secretsProvider = "awskms"
  /\ "kms" \in loc.bad
  /\ pc = "done"
  /\ StackInitOkAt # {}

(***************************************************************************)
(* C21: whenever cloudToS3 or init issues a provider change or a stack     *)
(* creation in awskms mode, the provider URL                               *)
(* awskms://alias/<x>?region=<r> names an alias that is resolvable: one    *)
(* that the existence probe (describe-key) found, or one whose             *)
(* create-alias command succeeded earlier in the run; also in runs where   *)
(* createKmsKeyAndAlias created the key but failed to create the alias.    *)
(***************************************************************************)
\* the argument of the command that is an awskms:// URL
ProviderUrl(e) == e.cmd[CHOOSE n \in 1..Len(e.cmd) : Len(e.cmd[n]) > 0 /\ e.cmd[n][1] = "awskms://"]

\* the key the URL names: what stands between "awskms://" and "?region="
ProviderKey(e) ==
  LET url == ProviderUrl(e)
      q == CHOOSE k \in 1..Len(url) : url[k] = "?region="
  IN  SubSeq(url, 2, q - 1)

\* the alias was found by the probe, or created, before position i
AliasResolvableBefore(alias, i) ==
  \E j \in 1..(i - 1) :
    /\ cmds[j].ok
    /\ \/ cmds[j].cmd = DescribeKeyCmd(alias, args.region)
       \/ cmds[j].cmd = CreateAliasCmd(alias, NewKeyId, args.region)

C21_KmsProviderNamesResolvableAlias ==
  wf \in {"cloudToS3", "init"} =>
    \A i \in 1..Len(cmds) :
      ((IsChangeSecrets(cmds[i]) \/ IsStackInit(cmds[i])) /\ NamesKmsProvider(cmds[i])) =>
         /\ StartsWithAlias(ProviderKey(cmds[i]))
         /\ AliasResolvableBefore(ProviderKey(cmds[i]), i)

(***************************************************************************)
(* C22: every pulumi login the tool issues (in loginToS3Backend, in        *)
(* loginToPulumiCloud, and both logins inside deleteSourceStack) is        *)
(* immediately preceded by a pulumi logout whose result is ignored: the    *)
(* login follows the logout whether it succeeded or not.  Each login       *)
(* function issues exactly one login attempt, and returns false when it    *)
(* fails, without retrying: a failed login is never issued again.          *)
(***************************************************************************)
\* the workflow is about to call loginToS3Backend or loginToPulumiCloud
AtLoginStep == pc \in {"s3login", "cloudlogin"}

\* the positions, in the commands this step adds, of the logins
NewLogins == {i \in 1..Len(NewCmds) : IsLogin(NewCmds[i])}

LogoutThenLogin(log) ==
  /\ \A i \in 1..Len(log) : IsLogin(log[i]) => (i > 1 /\ log[i - 1].cmd = LogoutCmd)
  /\ \A i \in 1..Len(log) : log[i].cmd = LogoutCmd => (i < Len(log) /\ IsLogin(log[i + 1]))

NoLoginRetried(log) ==
  \A i, j \in 1..Len(log) :
    (i < j /\ IsLogin(log[i]) /\ ~log[i].ok /\ IsLogin(log[j])) => log[j].cmd # log[i].cmd

C22_LogoutBeforeEveryLogin ==
  [][ /\ LogoutThenLogin(cmds')
      /\ NoLoginRetried(cmds')
      /\ AtLoginStep =>
           /\ Cardinality(NewLogins) = 1
           /\ \A i \in NewLogins :
                ~NewCmds[i].ok => (loc'.bad # loc.bad /\ pc' = "exited" /\ session' = NewCmds[i].at)
    ]_vars

\* a logout failed, and the login was issued all the same and succeeded
C22_Witness ==
  \E i \in 2..Len(cmds) :
    /\ IsLogin(cmds[i]) /\ cmds[i].ok
    /\ cmds[i - 1].cmd = LogoutCmd /\ ~cmds[i - 1].ok

(***************************************************************************)
(* C23: loginToPulumiCloud returns true if and only if both the login      *)
(* command and the identity verification that follows it (pulumi whoami)   *)
(* succeed: a login that exits 0 followed by a failed whoami yields false, *)
(* and whoami is not issued when the login fails.                          *)
(***************************************************************************)
\* the step of s3ToCloud that calls loginToPulumiCloud has been taken
CloudLoginReturned == wf = "s3ToCloud" /\ "login" \in (loc.ok \cup loc.bad)

\* the positions of the first login to Pulumi Cloud and of the whoami
CloudLoginAt == {i \in 1..Len(cmds) : IsCloudLogin(cmds[i]) /\ ~Before(i, IsCloudLogin)}

WhoamiAt == {i \in 1..Len(cmds) : IsWhoami(cmds[i])}

C23_CloudLoginNeedsLoginAndWhoami ==
  /\ \A w \in WhoamiAt : w > 1 /\ IsCloudLogin(cmds[w - 1]) /\ cmds[w - 1].ok
  /\ Cardinality(WhoamiAt) <= 1
  /\ CloudLoginReturned =>
       /\ Cardinality(CloudLoginAt) = 1
       /\ \A i \in CloudLoginAt :
            /\ cmds[i].ok <=> (WhoamiAt = {i + 1})
            /\ "login" \in loc.ok <=> (cmds[i].ok /\ \A w \in WhoamiAt : cmds[w].ok)
            /\ "login" \in loc.bad <=> ~(cmds[i].ok /\ \A w \in WhoamiAt : cmds[w].ok)
       /\ "login" \in loc.bad => (pc = "exited" /\ exitCode = 1)

\* the login succeeded, whoami failed, and loginToPulumiCloud returned false
C23_Witness ==
  /\ CloudLoginReturned /\ "login" \in loc.bad
  /\ \E i \in CloudLoginAt : cmds[i].ok /\ WhoamiAt = {i + 1} /\ ~cmds[i + 1].ok

(***************************************************************************)
(* C24: createStackInS3 first issues stack init with the organization      *)
(* qualifier when the stack reference embeds an organization; it issues a  *)
(* second, unqualified stack init exactly when that first attempt failed   *)
(* and an organization was present; it never issues more than two stack    *)
(* inits, returns true iff one of the attempts succeeded, and does not     *)
(* retry when the reference has no organization.                           *)
(***************************************************************************)
\* the step of cloudToS3 that calls createStackInS3 has been taken
CreateStackInS3Returned == wf = "cloudToS3" /\ "create" \in (loc.ok \cup loc.bad)

StackInitAt == {i \in 1..Len(cmds) : IsStackInit(cmds[i])}

\* the stack reference embeds an organization: org/name
EmbedsOrganization(stack) ==
  \E k \in 2..(Len(stack) - 1) :
    /\ stack[k] = "/"
    /\ \A m \in 1..Len(stack) : stack[m] = "/" => m = k

CreateS3BucketReturned == wf \in {"cloudToS3", "init"} /\ "bucket" \in (loc.ok \cup loc.bad)

CreateBucketAt == {i \in 1..Len(cmds) : IsCreateBucket(cmds[i])}

C25_BucketSettingsAreBestEffort ==
  CreateS3BucketReturned =>
    /\ CreateBucketAt # {}
    /\ \A i \in CreateBucketAt :
         /\ "bucket" \in loc.ok <=> cmds[i].ok
         /\ cmds[i].ok =>
              /\ Len(cmds) >= i + 3
              /\ cmds[i + 1].cmd = PutVersioningCmd(loc.bucket, args.region)
              /\ cmds[i + 2].cmd = PutEncryptionCmd(loc.bucket, args.region)
              /\ cmds[i + 3].cmd = PutLifecycleCmd(loc.bucket, args.region)

(***************************************************************************)
(* checkAndFixS3Permissions on its own (src/src/aws/s3.ts lines 92-183),   *)
(* called up to MaxReconciles times in a row on one bucket by the same     *)
(* caller.  loc.policy is the policy the bucket holds; get-bucket-policy   *)
(* fails when there is none, and otherwise prints the policy the bucket    *)
(* holds, or output that JSON.parse rejects; a successful                  *)
(* put-bucket-policy replaces the bucket's policy by the one written.      *)
(* loc.calls keeps, for each call, what it read, wrote and returned.       *)
(***************************************************************************)
\* the statements of the bucket policies: this tool's own, one that carries
\* its Sid for another principal, and two of other origin
PolicyStatements ==
  { FreshStatement,
    [sid |-> PulumiSid, effect |-> "Allow", principal |-> "other"],
    [sid |-> "Other", effect |-> "Allow", principal |-> "other"],
    [sid |-> "Other", effect |-> "Deny", principal |-> "*"] }

NoBucketPolicy == [exists |-> FALSE, hasStatement |-> FALSE, statements |-> <<>>]

BucketPolicy(hasStatement, statements) ==
  [exists |-> TRUE, hasStatement |-> hasStatement, statements |-> statements]

BucketPolicies ==
  {NoBucketPolicy, BucketPolicy(FALSE, <<>>)}
    \cup { BucketPolicy(TRUE, st) : st \in UNION { [1..n -> PolicyStatements] : n \in 0..MaxStatements } }

InitReconcile ==
  /\ wf = "checkAndFixS3Permissions"
  /\ args = BaseArgs
  /\ pc = "call"
  /\ loc \in [policy : BucketPolicies, calls : {<<>>}]
  /\ cmds = <<>>
  /\ asked = <<>>
  /\ session = CloudSession
  /\ dirs = {}
  /\ penv = Empty
  /\ exitCode = Running
  /\ failures = 0

\* what the commands of one call return: the identity (exit status, and
\* whether an ARN was printed), get-bucket-policy, put-bucket-policy; the
\* outcome of a command that is not issued is not chosen
ReconcileOutcomes ==
  { o \in [idOk : BOOLEAN, idText : BOOLEAN, getOk : BOOLEAN, parses : BOOLEAN, putOk : BOOLEAN] :
      /\ ~o.idOk => ~o.idText
      /\ ~(o.idOk /\ o.idText) => (o.getOk /\ o.parses /\ o.putOk)
      /\ o.getOk => loc.policy.exists
      /\ ~o.getOk => o.parses }

CheckAndFixS3Permissions_Call ==
  /\ pc = "call" /\ Len(loc.calls) < MaxReconciles
  /\ \E o \in ReconcileOutcomes :
       LET doc == IF o.getOk /\ o.parses
                  THEN PolicyDoc(TRUE, loc.policy.hasStatement, loc.policy.statements)
                  ELSE NoPolicyText
           r == CheckAndFixS3Permissions(session, penv, args.bucket, args.region,
                                         o.idOk, o.idText, o.getOk, doc, o.putOk)
           wrote == Len(r.entries) = 3 /\ o.putOk
           after == IF wrote THEN BucketPolicy(TRUE, r.policy) ELSE loc.policy
       IN  /\ cmds' = cmds \o r.entries
           /\ loc' = [policy |-> after,
                      calls |-> Append(loc.calls,
                                  [from |-> Len(cmds) + 1, to |-> Len(cmds) + Len(r.entries),
                                   identity |-> o.idOk /\ o.idText,
                                   getOk |-> o.getOk, read |-> doc, before |-> loc.policy,
                                   policy |-> r.policy, ret |-> r.ret, after |-> after])]
  /\ UNCHANGED <<wf, args, pc, asked, session, dirs, penv, exitCode, failures>>

NextReconcile == CheckAndFixS3Permissions_Call

SpecReconcile == InitReconcile /\ [][NextReconcile]_vars

(***************************************************************************)
(* C26: when checkAndFixS3Permissions writes a policy for an existing      *)
(* policy document P, the written statement list is P's statements whose   *)
(* Sid is not AllowPulumiStateAccess, in their original order, followed by *)
(* one fresh allow statement for the caller's identity; hence the written  *)
(* policy has exactly one statement with that Sid, and reconciling twice   *)
(* with the same identity writes the same policy as reconciling once.      *)
(***************************************************************************)
IsPutPolicy(e) == IsCmd(e, <<"aws", "s3api", "put-bucket-policy">>)

IsGetPolicy(e) == IsCmd(e, <<"aws", "s3api", "get-bucket-policy">>)

\* the call issued put-bucket-policy
PutIssued(c) == \E i \in c.from..c.to : IsPutPolicy(cmds[i])

\* the call read an existing policy document: one with a Statement list
ReadDocument(c) == c.getOk /\ c.read.parses /\ c.read.hasStatement

NotPulumiSid(st) == st.sid # PulumiSid

CallerStatement == [sid |-> "AllowPulumiStateAccess", effect |-> "Allow", principal |-> "me"]

C26_MergeKeepsOthersAndIsIdempotent ==
  wf = "checkAndFixS3Permissions" =>
    /\ \A k \in 1..Len(loc.calls) :
         LET c == loc.calls[k]
         IN  (PutIssued(c) /\ ReadDocument(c)) =>
               /\ c.read.statements = c.before.statements
               /\ c.policy = Append(SelectSeq(c.read.statements, NotPulumiSid), CallerStatement)
               /\ Cardinality({n \in 1..Len(c.policy) : c.policy[n].sid = PulumiSid}) = 1
               /\ cmds[c.to].ok => c.after.statements = c.policy
    /\ \A k \in 1..(Len(loc.calls) - 1) :
         LET c == loc.calls[k]
             d == loc.calls[k + 1]
         IN  (PutIssued(c) /\ cmds[c.to].ok /\ PutIssued(d) /\ ReadDocument(d)) =>
               d.policy = c.policy

\* a policy with a stale statement of the tool and one of other origin was
\* reconciled twice, and written twice
C26_Witness ==
  /\ wf = "checkAndFixS3Permissions" /\ Len(loc.calls) = 2
  /\ \A k \in 1..2 : PutIssued(loc.calls[k]) /\ cmds[loc.calls[k].to].ok /\ ReadDocument(loc.calls[k])
  /\ \E n \in 1..Len(loc.calls[1].read.statements) : loc.calls[1].read.statements[n].sid = PulumiSid
  /\ \E n \in 1..Len(loc.calls[1].read.statements) : loc.calls[1].read.statements[n].sid = "Other"

(***************************************************************************)
(* C27: when the provider CLI returns output that cannot be parsed as      *)
(* JSON, the operation that parses it reports failure and performs no      *)
(* further write.  For checkAndFixS3Permissions: when the output of        *)
(* get-bucket-policy cannot be parsed, it returns false without issuing    *)
(* put-bucket-policy, so an existing bucket policy that could not be       *)
(* parsed is never overwritten.  (For createKmsKeyAndAlias, which returns  *)
(* null, see C29.)                                                         *)
(***************************************************************************)
\* get-bucket-policy succeeded and printed what JSON.parse rejects
ReadUnparsable(c) == c.getOk /\ ~c.read.parses

C27_UnparsablePolicyIsNotOverwritten ==
  wf = "checkAndFixS3Permissions" =>
    \A k \in 1..Len(loc.calls) :
      LET c == loc.calls[k]
      IN  ReadUnparsable(c) =>
            /\ ~c.ret
            /\ ~PutIssued(c)
            /\ c.after = c.before

(***************************************************************************)
(* C28: checkAndFixS3Permissions returns false and issues no policy read   *)
(* or write when the caller's identity cannot be resolved; it returns      *)
(* false when the policy write fails; it returns true only after a         *)
(* successful put-bucket-policy.                                           *)
(***************************************************************************)
C28_PermissionsResultFollowsIdentityAndWrite ==
  wf = "checkAndFixS3Permissions" =>
    \A k \in 1..Len(loc.calls) :
      LET c == loc.calls[k]
      IN  /\ cmds[c.from].cmd = GetIdentityCmd
          /\ ~cmds[c.from].ok => ~c.identity
          /\ ~c.identity =>
               /\ ~c.ret
               /\ c.to = c.from
               /\ \A i \in c.from..c.to : ~IsGetPolicy(cmds[i]) /\ ~IsPutPolicy(cmds[i])
               /\ c.after = c.before
          /\ c.identity =>
               /\ c.to = c.from + 2
               /\ IsGetPolicy(cmds[c.from + 1]) /\ IsPutPolicy(cmds[c.to])
          /\ (PutIssued(c) /\ ~cmds[c.to].ok) => (~c.ret /\ c.after = c.before)
          /\ c.ret => (IsPutPolicy(cmds[c.to]) /\ cmds[c.to].ok)

\* a call that could not resolve the identity, then one that wrote the policy
C28_Witness ==
  /\ wf = "checkAndFixS3Permissions" /\ Len(loc.calls) = 2
  /\ ~loc.calls[1].identity /\ ~loc.calls[1].ret
  /\ loc.calls[2].identity /\ loc.calls[2].ret

(***************************************************************************)
(* C29: createKmsKeyAndAlias returns null iff the key creation failed (or  *)
(* its output could not be parsed); when the key was created it returns a  *)
(* non-null identifier: the requested alias if the alias command           *)
(* succeeded, the bare key id if the alias command failed; the alias       *)
(* command is never issued when the key creation failed.                   *)
(***************************************************************************)
\* the workflow called createKmsKeyAndAlias, which has returned; "kms" is
\* among the failed steps when it returned null
CreateKmsReturned ==
  /\ wf \in {"cloudToS3", "init"} /\ "run" \notin DOMAIN loc
  /\ "kms" \in (loc.ok \cup loc.bad)

IsCreateKey(e) == IsCmd(e, <<"aws", "kms", "create-key">>)

IsCreateAlias(e) == IsCmd(e, <<"aws", "kms", "create-alias">>)

CreateKeyAt == {i \in 1..Len(cmds) : IsCreateKey(cmds[i])}

\* create-key succeeded and printed the description of the key
KeyMade(e) == e.ok /\ e.out = <<"{\"KeyMetadata\":{\"KeyId\":\"">> \o NewKeyId \o <<"\"}}">>

RequestedAlias == IF StartsWithAlias(args.kmsAlias) THEN args.kmsAlias ELSE <<"alias/">> \o args.kmsAlias

C29_KmsResultIsAliasOrKeyId ==
  /\ \A j \in 1..Len(cmds) :
       IsCreateAlias(cmds[j]) => (j > 1 /\ IsCreateKey(cmds[j - 1]) /\ KeyMade(cmds[j - 1]))
  /\ CreateKmsReturned =>
       /\ Cardinality(CreateKeyAt) = 1
       /\ \A i \in CreateKeyAt :
            /\ "kms" \in loc.bad <=> ~KeyMade(cmds[i])
            /\ "kms" \in loc.ok <=> KeyMade(cmds[i])
            /\ KeyMade(cmds[i]) =>
                 /\ Len(cmds) > i /\ IsCreateAlias(cmds[i + 1])
                 /\ cmds[i + 1].cmd[5] = RequestedAlias
                 /\ cmds[i + 1].cmd[7] = NewKeyId
                 /\ Truthy(loc.finalKmsAlias)
                 /\ loc.finalKmsAlias = IF cmds[i + 1].ok THEN RequestedAlias ELSE NewKeyId

\* the key was created, the alias was not: the key id is what was returned
C29_Witness ==
  /\ CreateKmsReturned /\ "kms" \in loc.ok
  /\ \E i \in CreateKeyAt : KeyMade(cmds[i]) /\ IsCreateAlias(cmds[i + 1]) /\ ~cmds[i + 1].ok
  /\ loc.finalKmsAlias = NewKeyId

(***************************************************************************)
(* C30: changeSecretProvider returns the requested mode iff the            *)
(* provider-change command was issued and succeeded, and null otherwise;   *)
(* in passphrase mode with an empty or missing passphrase it returns null  *)
(* without issuing any command and without changing the process            *)
(* environment, so no passphrase-mode command is ever issued without a     *)
(* non-empty passphrase set.                                               *)
(***************************************************************************)
\* the workflow is about to call changeSecretProvider
AtChangeSecretProvider == wf = "cloudToS3" /\ pc = "changeSecrets"

\* the provider change is in passphrase mode
IsPassphraseChange(e) == IsChangeSecrets(e) /\ e.cmd[4] = <<"passphrase">>

C30_ChangeSecretProviderResult ==
  [][ AtChangeSecretProvider =>
        \E ok \in BOOLEAN :
          LET mode == args.secretsProvider
              r == ChangeSecretProvider(session, penv, args.stack, mode,
                                        [passphrase |-> args.passphrase,
                                         kmsAlias |-> loc.finalKmsAlias,
                                         region |-> args.region], ok)
              succeeded == Len(NewCmds) = 1 /\ NewCmds[1].ok
          IN  /\ NewCmds = r.entries /\ penv' = r.pass
              /\ Len(NewCmds) <= 1
              /\ \A i \in 1..Len(NewCmds) : IsChangeSecrets(NewCmds[i])
              /\ r.ret = IF succeeded THEN [null |-> FALSE, val |-> <<mode>>]
                         ELSE [null |-> TRUE, val |-> <<>>]
              /\ "changeSecrets" \in loc'.ok <=> succeeded
              /\ "changeSecrets" \in loc'.bad <=> ~succeeded
              /\ (mode = "passphrase" /\ args.passphrase = <<>>) =>
                   (NewCmds = <<>> /\ penv' = penv)
              /\ ~(mode = "passphrase" /\ args.passphrase = <<>>) => Len(NewCmds) = 1
              /\ mode # "passphrase" => penv' = penv
              /\ \A i \in 1..Len(NewCmds) :
                   IsPassphraseChange(NewCmds[i]) <=> mode = "passphrase"
              /\ \A i \in 1..Len(NewCmds) :
                   IsPassphraseChange(NewCmds[i]) =>
                     (NewCmds[i].pass # <<>> /\ NewCmds[i].pass = args.passphrase /\ penv' = args.passphrase)
    ]_vars

\* passphrase mode without a passphrase: null was returned, nothing issued
C30_Witness ==
  /\ wf = "cloudToS3" /\ pc = "export"
  /\ args.secretsProvider = "passphrase" /\ args.passphrase = <<>>
  /\ "changeSecrets" \in loc.bad
  /\ penv = <<>>
  /\ \A i \in 1..Len(cmds) : ~IsChangeSecrets(cmds[i])

(***************************************************************************)
(* The helpers that are pure functions of their arguments and of what the  *)
(* outside returns, each called on its own with inputs drawn from bounded  *)
(* sets: wf names the function, loc holds its inputs and, once it has      *)
(* returned, its result (ret).                                             *)
(*                                                                         *)
(* executeCommand (src/src/exec/command.ts).  The process either cannot be *)
(* spawned (Deno.Command throws, with a message), or exits with a code,    *)
(* having written stdout and stderr; these are sequences of tokens, white  *)
(* space being tokens of its own.                                          *)
(***************************************************************************)
RECURSIVE TrimStart(_)
TrimStart(str) == IF str # <<>> /\ IsSpace(Head(str)) THEN TrimStart(Tail(str)) ELSE str

RECURSIVE TrimEnd(_)
TrimEnd(str) ==
  IF str # <<>> /\ IsSpace(str[Len(str)]) THEN TrimEnd(SubSeq(str, 1, Len(str) - 1)) ELSE str

\* str.trim()
Trim(str) == TrimEnd(TrimStart(str))

\* what the runner's caller gets: an exception, or {output, success}
Raised == [throws |-> TRUE, success |-> FALSE, output |-> Empty]

Returned(success, output) == [throws |-> FALSE, success |-> success, output |-> output]

\* a variant that lets the error of a non-zero exit escape
ExecuteCommandRaises(spawned, message, code, stdout, stderr) ==
  IF ~spawned THEN Returned(FALSE, message)
  ELSE IF code # 0 THEN Raised
  ELSE Returned(TRUE, Trim(stdout))

\* lines 22-76: everything from the spawn on is inside the try; the catch
\* returns the message of what was thrown
ExecuteCommand(spawned, message, code, stdout, stderr) ==
  IF ~spawned THEN Returned(FALSE, message)
  ELSE IF code # 0
  THEN Returned(FALSE, IF Truthy(stderr) THEN stderr
                       ELSE <<"Command exited with code ", ToString(code)>>)
  ELSE Returned(TRUE, Trim(stdout))

OutputTokens == {" ", "\n", "text"}

Outputs == UNION { [1..n -> OutputTokens] : n \in 0..MaxOutputLen }

SpawnMessage == S("No such file or directory (os error 2)")

ExecuteCommandInputs ==
  { x \in [spawned : BOOLEAN, message : {SpawnMessage}, code : 0..MaxExitCode,
           stdout : Outputs, stderr : Outputs, ret : {Returned(FALSE, Empty)}] :
      ~x.spawned => (x.code = 0 /\ x.stdout = Empty /\ x.stderr = Empty) }

\* Logger.confirm: the flags of the logger, the default, and what prompt()
\* would return
AnswerChars == {"y", "Y", "e", "E", "s", "S", "n"}

Answers == {NullResponse} \cup { Typed(t) : t \in UNION { [1..n -> AnswerChars] : n \in 0..MaxAnswerLen } }

ConfirmCallInputs ==
  [yes : BOOLEAN, interactive : BOOLEAN, defaultYes : BOOLEAN, resp : Answers,
   read : {FALSE}, ret : {FALSE}]

\* createStackInS3: stack references with no, one and two separators, the
\* four provider modes, and the results of the two stack init commands
StackRefs == Stacks \cup {<<"acme", "/", "proj", "/", "dev">>}

ProviderModes == {"passphrase", "awskms", "default", "hashivault"}

CreateStackInS3Inputs ==
  [stack : StackRefs, secretsProvider : ProviderModes,
   config : [passphrase : {Empty, S("pw")}, kmsAlias : {Empty, S("team-key")}, region : {Region}],
   ok1 : BOOLEAN, ok2 : BOOLEAN, ret : {FALSE}]

\* createS3Bucket: bucket names, regions with and without a location
\* constraint, and the results of the four commands
CallRegions == {S("us-east-1"), S("us-east-2"), Region}

CreateS3BucketInputs ==
  [bucket : {SuggestedBucketName, S("typed-bucket")}, region : CallRegions,
   o : [1..4 -> BOOLEAN], ret : {FALSE}]

\* the functions called on their own, and the inputs of each
CallInputs(f) ==
  CASE f = "executeCommand" -> ExecuteCommandInputs
    [] f = "confirm" -> ConfirmCallInputs
    [] f = "createStackInS3" -> CreateStackInS3Inputs
    [] f = "createS3Bucket" -> CreateS3BucketInputs

InitCalls ==
  /\ wf \in {"executeCommand", "confirm", "createStackInS3", "createS3Bucket"}
  /\ loc \in CallInputs(wf)
  /\ args = BaseArgs
  /\ pc = "call"
  /\ cmds = <<>>
  /\ asked = <<>>
  /\ session = CloudSession
  /\ dirs = {}
  /\ penv = Empty
  /\ exitCode = Running
  /\ failures = 0

ExecuteCommand_Call ==
  /\ wf = "executeCommand" /\ pc = "call"
  /\ loc' = [loc EXCEPT !.ret = ExecuteCommand(loc.spawned, loc.message, loc.code,
                                               loc.stdout, loc.stderr)]
  /\ pc' = "returned"
  /\ UNCHANGED <<wf, args, cmds, asked, session, dirs, penv, exitCode, failures>>

\* Logger.confirm: read tells whether prompt() was called
Confirm_Call ==
  /\ wf = "confirm" /\ pc = "call"
  /\ loc' = [loc EXCEPT !.read = ConfirmPrompts(loc.yes, loc.interactive),
                        !.ret = Confirm(loc.yes, loc.interactive, loc.defaultYes, loc.resp)]
  /\ pc' = "returned"
  /\ UNCHANGED <<wf, args, cmds, asked, session, dirs, penv, exitCode, failures>>

\* createStackInS3, logged in to the S3 backend
CreateStackInS3_Call ==
  /\ wf = "createStackInS3" /\ pc = "call"
  /\ LET r == CreateStackInS3(session, penv, loc.stack, loc.secretsProvider, loc.config,
                              loc.ok1, loc.ok2)
     IN  /\ cmds' = cmds \o r.entries
         /\ failures' = failures + Failed(r.entries)
         /\ penv' = r.pass
         /\ loc' = [loc EXCEPT !.ret = r.ret]
  /\ pc' = "returned"
  /\ UNCHANGED <<wf, args, asked, session, dirs, exitCode>>

CreateS3Bucket_Call ==
  /\ wf = "createS3Bucket" /\ pc = "call"
  /\ LET r == CreateS3Bucket(session, penv, loc.bucket, loc.region, loc.o)
     IN  /\ cmds' = cmds \o r.entries
         /\ failures' = failures + Failed(r.entries)
         /\ loc' = [loc EXCEPT !.ret = r.ret]
  /\ pc' = "returned"
  /\ UNCHANGED <<wf, args, asked, session, dirs, penv, exitCode>>

NextCalls ==
  \/ ExecuteCommand_Call
  \/ Confirm_Call
  \/ CreateStackInS3_Call
  \/ CreateS3Bucket_Call

SpecCalls == InitCalls /\ [][NextCalls]_vars

(***************************************************************************)
(* C31: the command runner returned by createExecuteCommand never throws:  *)
(* a spawn failure or a non-zero exit yields success = false with the      *)
(* captured stderr (or the exception message, or an exit-code message when *)
(* stderr is empty) as output, and success = true is returned iff the      *)
(* process exited with code 0, with the trimmed stdout as output.          *)
(***************************************************************************)
\* out is text without white space at either end, and text is out with
\* white space around it
IsTrimOf(out, text) ==
  /\ out # <<>> => (~IsSpace(out[1]) /\ ~IsSpace(out[Len(out)]))
  /\ \E i \in 0..Len(text) :
       /\ i + Len(out) <= Len(text)
       /\ \A n \in 1..Len(out) : out[n] = text[i + n]
       /\ \A n \in 1..Len(text) : (n <= i \/ n > i + Len(out)) => IsSpace(text[n])

C31_RunnerNeverThrows ==
  (wf = "executeCommand" /\ pc = "returned") =>
    /\ ~loc.ret.throws
    /\ loc.ret.success <=> (loc.spawned /\ loc.code = 0)
    /\ loc.ret.success => IsTrimOf(loc.ret.output, loc.stdout)
    /\ ~loc.spawned => loc.ret.output = loc.message
    /\ (loc.spawned /\ loc.code # 0 /\ loc.stderr # <<>>) => loc.ret.output = loc.stderr
    /\ (loc.spawned /\ loc.code # 0 /\ loc.stderr = <<>>) =>
         loc.ret.output = <<"Command exited with code ", ToString(loc.code)>>

\* a process that exited with a non-zero code without writing to stderr
C31_Witness ==
  /\ wf = "executeCommand" /\ pc = "returned"
  /\ loc.spawned /\ loc.code # 0 /\ loc.stderr = <<>>
  /\ ~loc.ret.success /\ loc.ret.output # <<>>

(***************************************************************************)
(* C32: Logger.confirm returns true whenever --yes is set, whatever the    *)
(* default; otherwise in non-interactive mode it returns the supplied      *)
(* default without reading input; otherwise an empty or absent answer      *)
(* returns the default, and a non-empty answer returns true iff it is "y"  *)
(* or "yes" in any letter case.                                            *)
(***************************************************************************)
\* "y" or "yes" in any letter case
IsYesAnswer(text) ==
  \/ Len(text) = 1 /\ text[1] \in {"y", "Y"}
  \/ Len(text) = 3 /\ text[1] \in {"y", "Y"} /\ text[2] \in {"e", "E"} /\ text[3] \in {"s", "S"}

C32_ConfirmDecision ==
  (wf = "confirm" /\ pc = "returned") =>
    /\ loc.yes => (loc.ret /\ ~loc.read)
    /\ (~loc.yes /\ ~loc.interactive) => (loc.ret = loc.defaultYes /\ ~loc.read)
    /\ (~loc.yes /\ loc.interactive) =>
         /\ loc.read
         /\ (loc.resp.null \/ loc.resp.text = <<>>) => loc.ret = loc.defaultYes
         /\ (~loc.resp.null /\ loc.resp.text # <<>>) => (loc.ret <=> IsYesAnswer(loc.resp.text))

\* "yEs" typed at a prompt whose default is no; --yes with the default no
C32_Witness ==
  /\ wf = "confirm" /\ pc = "returned"
  /\ ~loc.yes /\ loc.interactive /\ ~loc.defaultYes
  /\ loc.resp = [null |-> FALSE, text |-> <<"y", "E", "s">>]
  /\ loc.ret

(***************************************************************************)
(* C33: deleteSourceStack issues the stack-removal command only while the  *)
(* ambient session is logged into the source backend: for both values of   *)
(* switchToCloud, if the logout or the login to the source backend fails,  *)
(* no pulumi stack rm is issued, so the removal can never run against the  *)
(* destination backend that holds the freshly imported stack.              *)
(***************************************************************************)
\* the session of the backend the stack is migrated from
SourceBackend == IF wf = "cloudToS3" THEN CloudSession ELSE S3Session(loc.backend)

C33_RemovalRunsOnSourceOnly ==
  Migrating =>
    \A i \in RmAt :
      /\ cmds[i].at = SourceBackend
      /\ i > 2
      /\ IsLogin(cmds[i - 1]) /\ cmds[i - 1].ok
      /\ cmds[i - 2].cmd = LogoutCmd /\ cmds[i - 2].ok

(***************************************************************************)
(* C34: on a fully successful run of s3ToCloud and of cloudToS3, the       *)
(* directory the final cleanup removes is the directory exportStackState   *)
(* created for the state file, so no staging directory with exported       *)
(* secrets is left behind once the workflow reports completion.            *)
(***************************************************************************)
\* the directory of the state file the export command of this run wrote
StagingDirs ==
  {Head(cmds[i].cmd[Len(cmds[i].cmd)]) : i \in {j \in 1..Len(cmds) : IsExport(cmds[j])}}

NoCommandFailed == \A i \in 1..Len(cmds) : cmds[i].ok

CleanupStep == Migrating /\ pc = "cleanup" /\ pc' = "done"

C34_CleanupRemovesStagingDir ==
  [][(CleanupStep /\ NoCommandFailed) =>
       /\ StagingDirs # {}
       /\ StagingDirs \subseteq dirs
       /\ dirs \ dirs' = StagingDirs
       /\ dirs' = {}]_vars

(***************************************************************************)
(* C35: in s3ToCloud run with --access-token, every login to the hosted    *)
(* service carries the token in PULUMI_ACCESS_TOKEN, including the final   *)
(* re-login deleteSourceStack performs after removing the source stack, so *)
(* the run never depends on credentials stored in the ambient session.     *)
(***************************************************************************)
C35_EveryCloudLoginCarriesToken ==
  (wf = "s3ToCloud" /\ Truthy(args.accessToken)) =>
    \A i \in 1..Len(cmds) :
      IsCloudLogin(cmds[i]) => cmds[i].env = TokenEnv(args.accessToken)

(***************************************************************************)
(* C36: in cloudToS3 a failed change of the secrets provider is never      *)
(* fatal and never prompts: the step always hands over to the export with  *)
(* the run still going and nothing asked, the step after it issues the     *)
(* pulumi stack export command, and the run can still end with status 0.   *)
(***************************************************************************)
ChangeSecretsFailed == wf = "cloudToS3" /\ "changeSecrets" \in loc.bad

C36_FailedProviderChangeIsNotFatal ==
  [][/\ (wf = "cloudToS3" /\ pc = "changeSecrets") =>
          /\ pc' = "export"
          /\ exitCode' = Running
          /\ asked' = asked
     /\ (wf = "cloudToS3" /\ pc = "export") =>
          /\ Len(cmds') = Len(cmds) + 1
          /\ IsExport(cmds'[Len(cmds')])]_vars

\* a run whose provider change failed and that ended with status 0, its
\* export issued right after the failed command
C36_Witness ==
  /\ ChangeSecretsFailed
  /\ pc = "done" /\ exitCode = 0
  /\ \E i \in 1..Len(cmds) - 1 :
       IsChangeSecrets(cmds[i]) /\ ~cmds[i].ok /\ IsExport(cmds[i + 1])

(***************************************************************************)
(* C37: the unqualified retry of createStackInS3 differs from the first    *)
(* stack init command only by the absence of the organization flag: for    *)
(* every provider mode (passphrase, awskms, default, any other provider)   *)
(* the stack name, the --non-interactive flag and the secrets-provider     *)
(* argument are the same in both, and both run in the same session with    *)
(* the same passphrase in the environment.                                 *)
(***************************************************************************)
\* a command line without its --organization flag and the flag's value
WithoutOrganization(cmd) ==
  LET keep == {n \in 1..Len(cmd) :
                 /\ cmd[n] # S("--organization")
                 /\ (n > 1 => cmd[n - 1] # S("--organization"))}
      F[n \in 0..Len(cmd)] ==
        IF n = 0 THEN <<>>
        ELSE IF n \in keep THEN Append(F[n - 1], cmd[n]) ELSE F[n - 1]
  IN  F[Len(cmd)]

RetryIssued == wf = "createStackInS3" /\ pc = "returned" /\ Len(cmds) = 2

C37_RetryOnlyDropsOrganization ==
  (wf = "createStackInS3" /\ pc = "returned") =>
    /\ Len(cmds) \in {1, 2}
    /\ Len(cmds) = 2 =>
         /\ HasOrganizationFlag(cmds[1])
         /\ ~HasOrganizationFlag(cmds[2])
         /\ cmds[2].cmd = WithoutOrganization(cmds[1].cmd)
         /\ Len(cmds[1].cmd) = Len(cmds[2].cmd) + 2
         /\ cmds[2].at = cmds[1].at
         /\ cmds[2].pass = cmds[1].pass
         /\ cmds[2].env = cmds[1].env

\* the retry was issued for a provider that is none of the three named modes,
\* and it carried that provider
C37_Witness ==
  /\ RetryIssued
  /\ loc.secretsProvider = "hashivault"
  /\ \E n \in 1..Len(cmds[2].cmd) - 1 :
       cmds[2].cmd[n] = S("--secrets-provider") /\ cmds[2].cmd[n + 1] = S("hashivault")

(***************************************************************************)
(* C38: s3ToCloud run with interactive prompts and no --backend logs in to *)
(* the canonical address s3://<bucket>?region=<region> of the bucket name  *)
(* that was entered, the same string the s3 login command builds for the   *)
(* same answers, and parseS3BackendUrl maps that address back to the       *)
(* bucket and the region.                                                  *)
(***************************************************************************)
PromptedBackend == wf = "s3ToCloud" /\ args.interactive /\ ~Truthy(args.backend)

\* the bucket names the prompt can return
EnteredBuckets == {Prompt(TRUE, SuggestedBucketName, r) : r \in BucketResponses}

\* the addresses of the logins of this run that name a backend
LoginUrls == {cmds[i].cmd[3] : i \in {j \in 1..Len(cmds) : IsLogin(cmds[j]) /\ Len(cmds[j].cmd) > 2}}

C38_PromptedBackendIsCanonical ==
  PromptedBackend =>
    \A url \in LoginUrls :
      \E b \in EnteredBuckets :
        /\ url = S3Url(b, Region)
        /\ ParseS3BackendUrl(url, S("us-east-1")) =
             [throws |-> FALSE, bucket |-> b, region |-> Region]

(***************************************************************************)
(* C39: every workflow terminates whatever the external commands return    *)
(* and whatever the user answers, and issues a bounded number of commands: *)
(* export and import are each issued at most once per run, stack init at   *)
(* most twice, the second being the unqualified retry that directly        *)
(* follows a failed qualified attempt, and no other failed command line is *)
(* issued again (pulumi logout, which precedes every login, aside).        *)
(***************************************************************************)
StackInits == {i \in 1..Len(cmds) : IsStackInit(cmds[i])}

OnlyUnqualifiedRetry ==
  /\ Cardinality(StackInits) <= 2
  /\ \A i, j \in StackInits :
       i < j => /\ j = i + 1
                /\ ~cmds[i].ok
                /\ HasOrganizationFlag(cmds[i])
                /\ ~HasOrganizationFlag(cmds[j])

NoFailedCommandReissued ==
  \A i, j \in 1..Len(cmds) :
    (i < j /\ ~cmds[i].ok /\ cmds[i].cmd = cmds[j].cmd) => cmds[i].cmd = LogoutCmd

\* no run issues more than 26 commands
BoundedCommands ==
  /\ Len(cmds) <= 26
  /\ AtMostOnce(IsExport)
  /\ AtMostOnce(IsImport)
  /\ OnlyUnqualifiedRetry
  /\ NoFailedCommandReissued

ValuesOf(cmd, flag) == {cmd[n + 1] : n \in {m \in 1..Len(cmd) - 1 : cmd[m] = S(flag)}}

BucketCallReturned == wf = "createS3Bucket" /\ pc = "returned"

C40_LocationConstraintFollowsRegion ==
  BucketCallReturned =>
    /\ Len(cmds) >= 1
    /\ IsCmd(cmds[1], <<"aws", "s3api", "create-bucket">>)
    /\ ValuesOf(cmds[1].cmd, "--create-bucket-configuration") =
         (IF loc.region = S("us-east-1") THEN {}
          ELSE {<<"LocationConstraint=">> \o loc.region})
    /\ \A i \in 1..Len(cmds) :
         /\ ValuesOf(cmds[i].cmd, "--bucket") = {loc.bucket}
         /\ ValuesOf(cmds[i].cmd, "--region") = {loc.region}

\* all four commands were issued for a bucket in us-east-1
C40_Witness ==
  /\ BucketCallReturned
  /\ loc.region = S("us-east-1")
  /\ Len(cmds) = 4
  /\ IsCmd(cmds[4], <<"aws", "s3api", "put-bucket-lifecycle-configuration">>)
  /\ ValuesOf(cmds[1].cmd, "--create-bucket-configuration") = {}

=============================================================================
